---- MODULE Spec2Model ----
(***************************************************************************)
(* Recommendation core of Resumi: the location normalizer and scorer       *)
(* (backend/location_logic/normalizer.py), the job matcher                 *)
(* (backend/matching/matcher.py), the job normalizer                       *)
(* (backend/job_normalization/normalizer.py), the profile extractor        *)
(* (backend/profile_extraction/extractor.py), the explanation generator    *)
(* (backend/explanations/generator.py), the resume content check          *)
(* (backend/resume_ingestion/parser.py), the external search generator     *)
(* (backend/external_search), the job collection                           *)
(* (backend/job_sources/orchestrator.py) and the upload_resume,            *)
(* set_preferences and get_recommendations handlers with their session     *)
(* store (orchestration/main.py).                                          *)
(*                                                                         *)
(* Spec runs match_jobs step by step, SpecUnit calls the pure functions    *)
(* directly, SpecCore runs get_recommendations from the collected raw      *)
(* postings to the response, SpecCollect runs collect_all_jobs with its    *)
(* three concurrent collectors, SpecApi serves interleaved requests of the *)
(* three handlers.  A dict key that is missing holds Absent, a field that  *)
(* is None holds PyNone.                                                   *)
(*                                                                         *)
(* Python strings are sequences of one-character strings, so that lower(), *)
(* strip(), split(','), title() and the substring test `in` are computed   *)
(* character by character.  Optional[str] is a sequence of length 0 (None) *)
(* or 1 (the string).  Scores are exact rationals <<n, d>> in lowest       *)
(* terms.  The float test total_score >= 0.3 agrees with the exact one on  *)
(* every total the scorer can produce; totals that are equal exactly are   *)
(* identified, although their floats may differ in the last bit.           *)
(*                                                                         *)
(* TLC re-evaluates an operator argument at every use but evaluates a LET  *)
(* definition once, so intermediate values are bound by LET before they    *)
(* are passed on.                                                          *)
(***************************************************************************)
EXTENDS Integers, Sequences, FiniteSets, TLC

VARIABLES jobs, profile, preferences, max_results,
          filtered_jobs, scored_jobs, idx, match, domain_score, result, pc,
          call, ret,
          raw_jobs, normalized_jobs, recommendations, response,
          sessions, runs, run, http, now,
          tasks, finished, all_jobs, saved_raw_jobs

vars == <<jobs, profile, preferences, max_results,
          filtered_jobs, scored_jobs, idx, match, domain_score, result, pc,
          call, ret,
          raw_jobs, normalized_jobs, recommendations, response,
          sessions, runs, run, http, now,
          tasks, finished, all_jobs, saved_raw_jobs>>

\* The variables only get_recommendations uses.
pipeline_vars == <<raw_jobs, normalized_jobs, recommendations, response>>

\* The session store, the suspended and the running get_recommendations
\* requests, the last response and the clock of the API.
api_vars == <<sessions, runs, run, http, now>>

\* The collector tasks of collect_all_jobs and what it returns and saves.
collect_vars == <<tasks, finished, all_jobs, saved_raw_jobs>>

\* No request has been made.
NoRequests ==
    /\ sessions = << >>
    /\ runs = << >>
    /\ run = << >>
    /\ http = [handler |-> "none", status |-> 0, detail |-> "none"]
    /\ now = 0

\* No collection has been started.
NoCollection ==
    /\ tasks = << >>
    /\ finished = << >>
    /\ all_jobs = << >>
    /\ saved_raw_jobs = << >>

(***************************************************************************)
(* Bounds of the model.                                                    *)
(***************************************************************************)
MaxJobs == 2
MaxPrefs == 2
MaxResults == 2
MaxDuplicates == 3
MaxYears == 9
MaxCollected == 1
MaxSessions == 2
MaxRuns == 1

(***************************************************************************)
(* Rational arithmetic for the float scores.                               *)
(***************************************************************************)
RECURSIVE GCD(_, _)
GCD(a, b) == IF b = 0 THEN a ELSE LET r == a % b IN GCD(b, r)

Rat(n, d) == LET g == GCD(n, d) IN <<n \div g, d \div g>>
RAdd(a, b) == LET n == a[1] * b[2] + b[1] * a[2]
                  d == a[2] * b[2]
              IN Rat(n, d)
RMul(a, b) == LET n == a[1] * b[1]
                  d == a[2] * b[2]
              IN Rat(n, d)
RLeq(a, b) == a[1] * b[2] <= b[1] * a[2]
RLt(a, b) == a[1] * b[2] < b[1] * a[2]
RMax(a, b) == IF RLt(a, b) THEN b ELSE a
RMin(a, b) == IF RLt(b, a) THEN b ELSE a
Zero == Rat(0, 1)
One == Rat(1, 1)

(***************************************************************************)
(* Python str methods.                                                     *)
(***************************************************************************)
Uppers == <<"A","B","C","D","E","F","G","H","I","J","K","L","M","N","O","P","Q","R","S","T","U","V","W","X","Y","Z">>
Lowers == <<"a","b","c","d","e","f","g","h","i","j","k","l","m","n","o","p","q","r","s","t","u","v","w","x","y","z">>
Range(s) == {s[i] : i \in DOMAIN s}
UpperSet == Range(Uppers)
LowerSet == Range(Lowers)
ToLower == [c \in UpperSet |-> Lowers[CHOOSE i \in DOMAIN Uppers : Uppers[i] = c]]
ToUpper == [c \in LowerSet |-> Uppers[CHOOSE i \in DOMAIN Lowers : Lowers[i] = c]]
LowerChar(c) == IF c \in UpperSet THEN ToLower[c] ELSE c
UpperChar(c) == IF c \in LowerSet THEN ToUpper[c] ELSE c
IsCased(c) == c \in UpperSet \/ c \in LowerSet

Lower(s) == [i \in 1..Len(s) |-> LowerChar(s[i])]
Title(s) == [i \in 1..Len(s) |->
               IF i = 1 \/ ~IsCased(s[i - 1]) THEN UpperChar(s[i]) ELSE LowerChar(s[i])]

RECURSIVE LStrip(_)
LStrip(s) == IF s # << >> /\ Head(s) = " " THEN LET t == Tail(s) IN LStrip(t) ELSE s
RECURSIVE RStrip(_)
RStrip(s) == IF s # << >> /\ s[Len(s)] = " "
             THEN LET t == SubSeq(s, 1, Len(s) - 1) IN RStrip(t)
             ELSE s
Strip(s) == LET l == LStrip(s) IN RStrip(l)

RECURSIVE Split(_, _)
Split(s, sep) ==
    IF \A k \in DOMAIN s : s[k] # sep THEN <<s>>
    ELSE LET i == CHOOSE k \in DOMAIN s : s[k] = sep /\ \A m \in 1..(k - 1) : s[m] # sep
             rest == SubSeq(s, i + 1, Len(s))
         IN <<SubSeq(s, 1, i - 1)>> \o Split(rest, sep)

Contains(s, sub) == \E i \in 0..(Len(s) - Len(sub)) : SubSeq(s, i + 1, i + Len(sub)) = sub
AnyIn(keywords, s) == \E k \in DOMAIN keywords : Contains(s, keywords[k])

None == << >>
Some(s) == <<s>>
Truthy(opt) == opt # None /\ opt[1] # << >>

DictGet(dict, key, default) ==
    IF \E i \in DOMAIN dict : dict[i][1] = key
    THEN dict[CHOOSE i \in DOMAIN dict : dict[i][1] = key][2]
    ELSE default

(***************************************************************************)
(* backend/location_logic/normalizer.py                                    *)
(***************************************************************************)
COUNTRY_MAPPINGS == <<
    <<<<"u","s","a">>, <<"U","S","A">>>>, <<<<"u","s">>, <<"U","S","A">>>>, <<<<"u","n","i","t","e","d"," ","s","t","a","t","e","s">>, <<"U","S","A">>>>,
    <<<<"c","a","n","a","d","a">>, <<"C","a","n","a","d","a">>>>, <<<<"c","a">>, <<"C","a","n","a","d","a">>>>,
    <<<<"u","k">>, <<"U","n","i","t","e","d"," ","K","i","n","g","d","o","m">>>>, <<<<"g","b">>, <<"U","n","i","t","e","d"," ","K","i","n","g","d","o","m">>>>,
    <<<<"u","n","i","t","e","d"," ","k","i","n","g","d","o","m">>, <<"U","n","i","t","e","d"," ","K","i","n","g","d","o","m">>>>,
    <<<<"g","e","r","m","a","n","y">>, <<"G","e","r","m","a","n","y">>>>, <<<<"f","r","a","n","c","e">>, <<"F","r","a","n","c","e">>>>,
    <<<<"i","n","d","i","a">>, <<"I","n","d","i","a">>>>, <<<<"i","n">>, <<"I","n","d","i","a">>>>,
    <<<<"u","a","e">>, <<"U","A","E">>>>, <<<<"u","n","i","t","e","d"," ","a","r","a","b"," ","e","m","i","r","a","t","e","s">>, <<"U","A","E">>>>, <<<<"d","u","b","a","i">>, <<"U","A","E">>>>,
    <<<<"s","i","n","g","a","p","o","r","e">>, <<"S","i","n","g","a","p","o","r","e">>>>, <<<<"s","g">>, <<"S","i","n","g","a","p","o","r","e">>>>,
    <<<<"a","u","s","t","r","a","l","i","a">>, <<"A","u","s","t","r","a","l","i","a">>>>, <<<<"a","u">>, <<"A","u","s","t","r","a","l","i","a">>>> >>

CITY_ALIASES == <<
    <<<<"b","e","n","g","a","l","u","r","u">>, <<"B","a","n","g","a","l","o","r","e">>>>, <<<<"b","a","n","g","a","l","o","r","e">>, <<"B","a","n","g","a","l","o","r","e">>>>,
    <<<<"b","o","m","b","a","y">>, <<"M","u","m","b","a","i">>>>, <<<<"m","u","m","b","a","i">>, <<"M","u","m","b","a","i">>>>,
    <<<<"n","e","w"," ","d","e","l","h","i">>, <<"D","e","l","h","i">>>>, <<<<"d","e","l","h","i">>, <<"D","e","l","h","i">>>>,
    <<<<"g","u","r","u","g","r","a","m">>, <<"G","u","r","g","a","o","n">>>>, <<<<"g","u","r","g","a","o","n">>, <<"G","u","r","g","a","o","n">>>> >>

REMOTE_KEYWORDS == <<<<"r","e","m","o","t","e">>, <<"a","n","y","w","h","e","r","e">>, <<"w","o","r","l","d","w","i","d","e">>, <<"g","l","o","b","a","l">>, <<"w","o","r","k"," ","f","r","o","m"," ","h","o","m","e">>, <<"w","f","h">>>>
HYBRID_KEYWORDS == <<<<"h","y","b","r","i","d">>, <<"f","l","e","x","i","b","l","e">>, <<"r","e","m","o","t","e","-","f","r","i","e","n","d","l","y">>>>

NormalizedLocation(city, country, location_type, raw) ==
    [city |-> city, country |-> country, location_type |-> location_type, raw |-> raw]

_normalize_country(country_str) ==
    LET lowered == Lower(country_str)
        country_lower == Strip(lowered)
        titled == Title(country_str)
    IN DictGet(COUNTRY_MAPPINGS, country_lower, titled)

_parse_city_country_second_part(location_str) ==
    LET split == Split(location_str, ",")
        parts == [i \in DOMAIN split |-> Strip(split[i])]
        first == parts[1]
        first_lower == Lower(first)
    IN IF Len(parts) = 1
       THEN <<Some(DictGet(CITY_ALIASES, first_lower, first)), None>>
       ELSE <<Some(DictGet(CITY_ALIASES, first_lower, first)),
              Some(_normalize_country(parts[2]))>>

_parse_city_country(location_str) ==
    LET split == Split(location_str, ",")
        parts == [i \in DOMAIN split |-> Strip(split[i])]
        first == parts[1]
        first_lower == Lower(first)
        last == parts[Len(parts)]
    IN IF Len(parts) = 1
       THEN <<Some(DictGet(CITY_ALIASES, first_lower, first)), None>>
       ELSE <<Some(DictGet(CITY_ALIASES, first_lower, first)),
              Some(_normalize_country(last))>>

normalize_location_lowered_raw(location_str) ==
    IF location_str = << >>
    THEN NormalizedLocation(None, None, "onsite", <<"N","o","t"," ","s","p","e","c","i","f","i","e","d">>)
    ELSE LET lowered == Lower(location_str)
             location_lower == Strip(lowered)
         IN IF AnyIn(REMOTE_KEYWORDS, location_lower)
            THEN NormalizedLocation(None, None, "remote", location_lower)
            ELSE LET location_type == IF AnyIn(HYBRID_KEYWORDS, location_lower)
                                      THEN "hybrid" ELSE "onsite"
                     cc == _parse_city_country(location_str)
                 IN NormalizedLocation(cc[1], cc[2], location_type, location_lower)

normalize_location(location_str) ==
    IF location_str = << >>
    THEN NormalizedLocation(None, None, "onsite", <<"N","o","t"," ","s","p","e","c","i","f","i","e","d">>)
    ELSE LET lowered == Lower(location_str)
             location_lower == Strip(lowered)
         IN IF AnyIn(REMOTE_KEYWORDS, location_lower)
            THEN NormalizedLocation(None, None, "remote", location_str)
            ELSE LET location_type == IF AnyIn(HYBRID_KEYWORDS, location_lower)
                                      THEN "hybrid" ELSE "onsite"
                     cc == _parse_city_country(location_str)
                 IN NormalizedLocation(cc[1], cc[2], location_type, location_str)

LowerEq(a, b) == LET la == Lower(a)
                     lb == Lower(b)
                 IN la = lb

\* pref_score crediting the country whenever the preference names none.
pref_score_lenient(job_location, pref) ==
    IF Truthy(job_location.city) /\ Truthy(pref.city)
       /\ LowerEq(job_location.city[1], pref.city[1])
    THEN One
    ELSE IF Truthy(job_location.country)
            /\ (~Truthy(pref.country) \/ LowerEq(job_location.country[1], pref.country[1]))
         THEN Rat(7, 10)
         ELSE Zero

\* One iteration of the comparison loop of score_location_match.
pref_score(job_location, pref) ==
    IF Truthy(job_location.city) /\ Truthy(pref.city)
       /\ LowerEq(job_location.city[1], pref.city[1])
    THEN One
    ELSE IF Truthy(job_location.country) /\ Truthy(pref.country)
            /\ LowerEq(job_location.country[1], pref.country[1])
         THEN Rat(7, 10)
         ELSE Zero

\* best_match assigning the score of a match instead of taking the maximum.
RECURSIVE best_match_last_wins(_, _)
best_match_last_wins(job_location, normalized_prefs) ==
    IF normalized_prefs = << >> THEN Zero
    ELSE LET n == Len(normalized_prefs)
             front == SubSeq(normalized_prefs, 1, n - 1)
             best_score == best_match_last_wins(job_location, front)
             score == pref_score(job_location, normalized_prefs[n])
         IN IF score = Zero THEN best_score ELSE score

\* The comparison loop of score_location_match.
RECURSIVE best_match(_, _)
best_match(job_location, normalized_prefs) ==
    IF normalized_prefs = << >> THEN Zero
    ELSE LET n == Len(normalized_prefs)
             front == SubSeq(normalized_prefs, 1, n - 1)
             best_score == best_match(job_location, front)
             score == pref_score(job_location, normalized_prefs[n])
         IN RMax(best_score, score)

\* no_match_score with the international and default scores outside the
\* open_to_relocation test.
no_match_score_flat(job_location, normalized_prefs, open_to_relocation, open_to_international) ==
    LET same_country == Truthy(job_location.country)
                        /\ \E i \in DOMAIN normalized_prefs :
                              /\ Truthy(normalized_prefs[i].country)
                              /\ LowerEq(job_location.country[1],
                                          normalized_prefs[i].country[1])
    IN IF open_to_relocation /\ same_country THEN Rat(5, 10)
       ELSE IF open_to_international THEN Rat(4, 10)
       ELSE Rat(1, 10)

\* The block of score_location_match entered when no preference matched.
no_match_score(job_location, normalized_prefs, open_to_relocation, open_to_international) ==
    IF open_to_relocation
    THEN LET same_country == Truthy(job_location.country)
                             /\ \E i \in DOMAIN normalized_prefs :
                                   /\ Truthy(normalized_prefs[i].country)
                                   /\ LowerEq(job_location.country[1],
                                               normalized_prefs[i].country[1])
             best_score == IF same_country THEN Rat(5, 10) ELSE Zero
         IN IF best_score = Zero /\ open_to_international THEN Rat(4, 10)
            ELSE IF best_score = Zero THEN Rat(1, 10)
            ELSE best_score
    ELSE Zero

\* score_non_remote entering the no-match block whenever no city matched.
score_non_remote_unless_city(job_location, preferred_locations, open_to_relocation, open_to_international, remote_only) ==
    IF remote_only /\ job_location.location_type # "remote" THEN Rat(2, 10)
    ELSE IF preferred_locations = << >> THEN Rat(5, 10)
    ELSE LET normalized_prefs == [i \in DOMAIN preferred_locations |->
                                     normalize_location(preferred_locations[i])]
             best_score == best_match(job_location, normalized_prefs)
         IN IF best_score # One
            THEN no_match_score(job_location, normalized_prefs,
                                open_to_relocation, open_to_international)
            ELSE best_score

\* The rules of score_location_match after the remote-job rule.
score_non_remote(job_location, preferred_locations, open_to_relocation, open_to_international, remote_only) ==
    IF remote_only /\ job_location.location_type # "remote" THEN Rat(2, 10)
    ELSE IF preferred_locations = << >> THEN Rat(5, 10)
    ELSE LET normalized_prefs == [i \in DOMAIN preferred_locations |->
                                     normalize_location(preferred_locations[i])]
             best_score == best_match(job_location, normalized_prefs)
         IN IF best_score = Zero
            THEN no_match_score(job_location, normalized_prefs,
                                open_to_relocation, open_to_international)
            ELSE best_score

\* score_location_match without the remote-job rule.
score_location_match_no_remote_rule(job_location, preferred_locations, open_to_relocation, open_to_international, remote_only) ==
    score_non_remote(job_location, preferred_locations,
                     open_to_relocation, open_to_international, remote_only)

score_location_match(job_location, preferred_locations, open_to_relocation, open_to_international, remote_only) ==
    IF job_location.location_type = "remote" THEN One
    ELSE score_non_remote(job_location, preferred_locations,
                          open_to_relocation, open_to_international, remote_only)

(***************************************************************************)
(* backend/matching/matcher.py                                             *)
(***************************************************************************)
\* _calculate_skill_similarity boosting without the clamp to 1.0.
_calculate_skill_similarity_unclamped(user_skills, job_skills) ==
    IF user_skills = << >> \/ job_skills = << >> THEN Zero
    ELSE LET user_set == {Lower(user_skills[i]) : i \in DOMAIN user_skills}
             job_set == {Lower(job_skills[i]) : i \in DOMAIN job_skills}
             intersection == Cardinality(user_set \cap job_set)
             union == Cardinality(user_set \cup job_set)
         IN IF union = 0 THEN Zero
            ELSE LET jaccard == Rat(intersection, union)
                 IN IF intersection >= 5 THEN RMul(jaccard, Rat(12, 10)) ELSE jaccard

_calculate_skill_similarity(user_skills, job_skills) ==
    IF user_skills = << >> \/ job_skills = << >> THEN Zero
    ELSE LET user_set == {Lower(user_skills[i]) : i \in DOMAIN user_skills}
             job_set == {Lower(job_skills[i]) : i \in DOMAIN job_skills}
             intersection == Cardinality(user_set \cap job_set)
             union == Cardinality(user_set \cup job_set)
         IN IF union = 0 THEN Zero
            ELSE LET jaccard == Rat(intersection, union)
                 IN IF intersection >= 5
                    THEN LET boosted == RMul(jaccard, Rat(12, 10)) IN RMin(One, boosted)
                    ELSE jaccard

seniority_levels == <<
    <<"junior", 1>>, <<"mid", 2>>, <<"senior", 3>>, <<"lead", 4>>, <<"principal", 5>> >>

job_level_of(job_title) ==
    LET job_title_lower == Lower(job_title)
    IN IF AnyIn(<<<<"j","u","n","i","o","r">>, <<"e","n","t","r","y">>, <<"a","s","s","o","c","i","a","t","e">>>>, job_title_lower) THEN 1
       ELSE IF AnyIn(<<<<"s","e","n","i","o","r">>, <<"s","r">>>>, job_title_lower) THEN 3
       ELSE IF AnyIn(<<<<"l","e","a","d">>, <<"s","t","a","f","f">>, <<"p","r","i","n","c","i","p","a","l">>>>, job_title_lower) THEN 4
       ELSE 2

\* _calculate_career_fit scoring the size of the level difference, not its sign.
_calculate_career_fit_unsigned(user_seniority, user_role, job_title) ==
    LET user_level == DictGet(seniority_levels, user_seniority, 2)
        job_level == job_level_of(job_title)
        level_diff == IF job_level < user_level THEN user_level - job_level
                      ELSE job_level - user_level
    IN IF level_diff = 0 THEN Rat(7, 10)
       ELSE IF level_diff = 1 THEN Rat(9, 10)
       ELSE Rat(6, 10)

_calculate_career_fit(user_seniority, user_role, job_title) ==
    LET user_level == DictGet(seniority_levels, user_seniority, 2)
        job_level == job_level_of(job_title)
        level_diff == job_level - user_level
    IN IF level_diff = 0 THEN Rat(7, 10)
       ELSE IF level_diff = 1 THEN Rat(9, 10)
       ELSE IF level_diff = -1 THEN Rat(4, 10)
       ELSE IF level_diff >= 2 THEN Rat(6, 10)
       ELSE Rat(2, 10)

role_keywords == <<
    <<"strategy", <<<<"s","t","r","a","t","e","g","y">>, <<"s","t","r","a","t","e","g","i","c">>, <<"b","u","s","i","n","e","s","s"," ","s","t","r","a","t","e","g","y">>, <<"c","o","r","p","o","r","a","t","e"," ","s","t","r","a","t","e","g","y">>>> >>,
    <<"consulting", <<<<"c","o","n","s","u","l","t","a","n","t">>, <<"c","o","n","s","u","l","t","i","n","g">>, <<"a","d","v","i","s","o","r","y">>, <<"a","d","v","i","s","o","r","y"," ","s","e","r","v","i","c","e","s">>>> >>,
    <<"operations", <<<<"o","p","e","r","a","t","i","o","n","s">>, <<"o","p","s">>, <<"s","u","p","p","l","y"," ","c","h","a","i","n">>, <<"l","o","g","i","s","t","i","c","s">>, <<"p","r","o","c","e","s","s">>>> >>,
    <<"marketing", <<<<"m","a","r","k","e","t","i","n","g">>, <<"b","r","a","n","d">>, <<"d","i","g","i","t","a","l"," ","m","a","r","k","e","t","i","n","g">>, <<"g","r","o","w","t","h">>, <<"d","e","m","a","n","d"," ","g","e","n">>>> >>,
    <<"sales", <<<<"s","a","l","e","s">>, <<"b","u","s","i","n","e","s","s"," ","d","e","v","e","l","o","p","m","e","n","t">>, <<"a","c","c","o","u","n","t">>, <<"r","e","v","e","n","u","e">>>> >>,
    <<"finance", <<<<"f","i","n","a","n","c","e">>, <<"f","i","n","a","n","c","i","a","l">>, <<"f","p","&","a">>, <<"i","n","v","e","s","t","m","e","n","t">>, <<"a","c","c","o","u","n","t","i","n","g">>>> >>,
    <<"hr", <<<<"h","r">>, <<"h","u","m","a","n"," ","r","e","s","o","u","r","c","e","s">>, <<"t","a","l","e","n","t">>, <<"p","e","o","p","l","e">>, <<"r","e","c","r","u","i","t","i","n","g">>>> >> >>

keyword_matches(user_keywords, job_text) ==
    Cardinality({k \in DOMAIN user_keywords : Contains(job_text, user_keywords[k])})

\* _calculate_domain_fit searching the text without lower-casing it.
_calculate_domain_fit_case_sensitive(user_role, job_title, job_description) ==
    LET job_text == job_title \o <<" ">> \o job_description
        user_keywords == DictGet(role_keywords, user_role, << >>)
    IN IF user_keywords = << >> THEN Rat(5, 10)
       ELSE LET matches == keyword_matches(user_keywords, job_text)
            IN IF matches >= 2 THEN One
               ELSE IF matches = 1 THEN Rat(7, 10)
               ELSE Rat(3, 10)

_calculate_domain_fit(user_role, job_title, job_description) ==
    LET joined == job_title \o <<" ">> \o job_description
        job_text == Lower(joined)
        user_keywords == DictGet(role_keywords, user_role, << >>)
    IN IF user_keywords = << >> THEN Rat(5, 10)
       ELSE LET matches == keyword_matches(user_keywords, job_text)
            IN IF matches >= 2 THEN One
               ELSE IF matches = 1 THEN Rat(7, 10)
               ELSE Rat(3, 10)

business_roles == {"strategy", "consulting", "operations", "marketing", "sales", "finance", "hr"}

\* total_score_of using the original (tech) weights for every role.
total_score_of_tech_weights(primary_role, location_score, skill_score, career_score, dom_score) ==
    LET l == RMul(Rat(5, 10), location_score)
        s == RMul(Rat(4, 10), skill_score)
        c == RMul(Rat(1, 10), career_score)
        ls == RAdd(l, s)
    IN RAdd(ls, c)

\* The weighted total of _score_job.
total_score_of(primary_role, location_score, skill_score, career_score, dom_score) ==
    IF primary_role \in business_roles
    THEN LET l == RMul(Rat(3, 10), location_score)
             s == RMul(Rat(4, 10), skill_score)
             c == RMul(Rat(2, 10), career_score)
             d == RMul(Rat(1, 10), dom_score)
             ls == RAdd(l, s)
             lsc == RAdd(ls, c)
         IN RAdd(lsc, d)
    ELSE LET l == RMul(Rat(5, 10), location_score)
             s == RMul(Rat(4, 10), skill_score)
             c == RMul(Rat(1, 10), career_score)
             ls == RAdd(l, s)
         IN RAdd(ls, c)

JobMatch(job, total_score, location_score, skill_score, career_score) ==
    [job |-> job, total_score |-> total_score, location_score |-> location_score,
     skill_score |-> skill_score, career_score |-> career_score]

\* The locals of _score_job: the returned JobMatch and the domain score,
\* which is computed but not stored on the JobMatch.
_score_job(job, prof, prefs) ==
    LET job_location == NormalizedLocation(job.location.city, job.location.country,
                                           job.location.type, job.location.raw)
        location_score == score_location_match(job_location, prefs.preferred_locations,
                              prefs.open_to_relocation, prefs.open_to_international,
                              prefs.remote_only)
        user_skills == prof.skills \o prof.tools
        skill_score == _calculate_skill_similarity(user_skills, job.required_skills)
        career_score == _calculate_career_fit(prof.seniority, prof.primary_role, job.title)
        dom_score == _calculate_domain_fit(prof.primary_role, job.title, job.description)
        total_score == total_score_of(prof.primary_role, location_score, skill_score,
                                      career_score, dom_score)
    IN [match |-> JobMatch(job, total_score, location_score, skill_score, career_score),
        domain_score |-> dom_score]

\* _apply_hard_filters keeping every job.
_apply_hard_filters_keep_all(job_list, prefs) == job_list

_apply_hard_filters(job_list, prefs) ==
    SelectSeq(job_list, LAMBDA job : ~(prefs.remote_only /\ job.location.type # "remote"))

\* A threshold of one half.
MinimumThreshold_half == Rat(1, 2)

MinimumThreshold == Rat(3, 10)

\* A descending sort that puts a later element before its equals.
RECURSIVE sort_by_total_score_unstable(_)
sort_by_total_score_unstable(ms) ==
    IF ms = << >> THEN << >>
    ELSE LET n == Len(ms)
             front == SubSeq(ms, 1, n - 1)
             sorted == sort_by_total_score_unstable(front)
             x == ms[n]
             k == Cardinality({i \in DOMAIN sorted : RLt(x.total_score, sorted[i].total_score)})
         IN SubSeq(sorted, 1, k) \o <<x>> \o SubSeq(sorted, k + 1, Len(sorted))

\* list.sort(key=total_score, reverse=True): stable, equal keys keep their order.
RECURSIVE sort_by_total_score(_)
sort_by_total_score(ms) ==
    IF ms = << >> THEN << >>
    ELSE LET n == Len(ms)
             front == SubSeq(ms, 1, n - 1)
             sorted == sort_by_total_score(front)
             x == ms[n]
             k == Cardinality({i \in DOMAIN sorted : RLeq(x.total_score, sorted[i].total_score)})
         IN SubSeq(sorted, 1, k) \o <<x>> \o SubSeq(sorted, k + 1, Len(sorted))

(***************************************************************************)
(* Profile extractor (backend/profile_extraction/extractor.py), for the    *)
(* build without spaCy: SPACY_AVAILABLE is False and extract_skills is the *)
(* dictionary match alone.                                                 *)
(***************************************************************************)
Digits == <<"0","1","2","3","4","5","6","7","8","9">>
DigitSet == Range(Digits)
IsDigit(c) == c \in DigitSet
DigitValue == [c \in DigitSet |-> (CHOOSE i \in DOMAIN Digits : Digits[i] = c) - 1]
IsSpace(c) == c \in {" ", "\n", "\t", "\r"}
\* \w of the re module on the characters of the model.
IsWord(c) == IsCased(c) \/ IsDigit(c) \/ c = "_"

\* The characters of the skill names in code point order, for sorted().
CodeOrder == <<" ","#","&","+","-",".","/","0","1","2","3","4","5","6","7","8","9","a","b","c","d","e","f","g","h","i","j","k","l","m","n","o","p","q","r","s","t","u","v","w","x","y","z">>
CodePoint == [c \in Range(CodeOrder) |-> CHOOSE i \in DOMAIN CodeOrder : CodeOrder[i] = c]

RECURSIVE StrLess(_, _)
StrLess(a, b) ==
    IF a = << >> THEN b # << >>
    ELSE IF b = << >> THEN FALSE
    ELSE IF a[1] # b[1] THEN CodePoint[a[1]] < CodePoint[b[1]]
    ELSE LET ta == Tail(a)
             tb == Tail(b)
         IN StrLess(ta, tb)

RECURSIVE Sorted(_)
Sorted(S) ==
    IF S = {} THEN << >>
    ELSE LET least == CHOOSE x \in S : \A y \in S : y = x \/ StrLess(x, y)
             rest == S \ {least}
         IN <<least>> \o Sorted(rest)

RECURSIVE Join(_, _)
Join(parts, sep) ==
    IF parts = << >> THEN << >>
    ELSE IF Len(parts) = 1 THEN parts[1]
    ELSE LET rest == Tail(parts) IN parts[1] \o sep \o Join(rest, sep)

Prefix(s, n) == SubSeq(s, 1, IF n < Len(s) THEN n ELSE Len(s))

TECHNICAL_SKILLS == {
    <<".","n","e","t">>, <<"a","g","i","l","e">>, <<"a","i","r","f","l","o","w">>, <<"a","n","g","u","l","a","r">>, <<"a","n","s","i","b","l","e">>, <<"a","w","s">>, <<"a","z","u","r","e">>, <<"b","a","s","h">>,
    <<"b","i","g","q","u","e","r","y">>, <<"c","#">>, <<"c","+","+">>, <<"c","a","s","s","a","n","d","r","a">>, <<"c","i","/","c","d">>, <<"c","i","r","c","l","e","c","i">>, <<"c","o","m","p","u","t","e","r"," ","v","i","s","i","o","n">>,
    <<"c","s","s">>, <<"c","y","p","r","e","s","s">>, <<"d","a","t","a"," ","a","n","a","l","y","s","i","s">>, <<"d","b","t">>, <<"d","e","e","p"," ","l","e","a","r","n","i","n","g">>, <<"d","j","a","n","g","o">>, <<"d","o","c","k","e","r">>,
    <<"d","y","n","a","m","o","d","b">>, <<"e","l","a","s","t","i","c","s","e","a","r","c","h">>, <<"e","x","p","r","e","s","s">>, <<"f","a","s","t","a","p","i">>, <<"f","l","a","s","k">>, <<"g","c","p">>, <<"g","i","t">>,
    <<"g","i","t","h","u","b"," ","a","c","t","i","o","n","s">>, <<"g","i","t","l","a","b">>, <<"g","o">>, <<"g","o","o","g","l","e"," ","c","l","o","u","d">>, <<"g","r","a","p","h","q","l">>, <<"h","a","d","o","o","p">>, <<"h","t","m","l">>,
    <<"j","a","v","a">>, <<"j","a","v","a","s","c","r","i","p","t">>, <<"j","e","n","k","i","n","s">>, <<"j","e","s","t">>, <<"j","w","t">>, <<"k","8","s">>, <<"k","a","f","k","a">>, <<"k","e","r","a","s">>, <<"k","o","t","l","i","n">>,
    <<"k","u","b","e","r","n","e","t","e","s">>, <<"l","a","r","a","v","e","l">>, <<"l","i","n","u","x">>, <<"l","o","o","k","e","r">>, <<"m","a","c","h","i","n","e"," ","l","e","a","r","n","i","n","g">>, <<"m","a","t","l","a","b">>,
    <<"m","a","t","p","l","o","t","l","i","b">>, <<"m","i","c","r","o","s","e","r","v","i","c","e","s">>, <<"m","o","n","g","o">>, <<"m","o","n","g","o","d","b">>, <<"m","y","s","q","l">>, <<"n","l","p">>, <<"n","o","d","e",".","j","s">>,
    <<"n","o","d","e","j","s">>, <<"n","u","m","p","y">>, <<"o","a","u","t","h">>, <<"o","r","a","c","l","e">>, <<"p","a","n","d","a","s">>, <<"p","h","p">>, <<"p","o","s","t","g","r","e","s">>, <<"p","o","s","t","g","r","e","s","q","l">>,
    <<"p","o","w","e","r"," ","b","i">>, <<"p","y","t","e","s","t">>, <<"p","y","t","h","o","n">>, <<"p","y","t","o","r","c","h">>, <<"r">>, <<"r","a","i","l","s">>, <<"r","e","a","c","t">>, <<"r","e","d","i","s">>,
    <<"r","e","d","s","h","i","f","t">>, <<"r","e","s","t"," ","a","p","i">>, <<"r","u","b","y">>, <<"r","u","s","t">>, <<"s","c","a","l","a">>, <<"s","c","i","k","i","t","-","l","e","a","r","n">>, <<"s","c","i","p","y">>, <<"s","c","r","u","m">>,
    <<"s","e","a","b","o","r","n">>, <<"s","e","l","e","n","i","u","m">>, <<"s","h","e","l","l">>, <<"s","n","o","w","f","l","a","k","e">>, <<"s","p","a","r","k">>, <<"s","p","r","i","n","g">>, <<"s","q","l">>,
    <<"s","q","l"," ","s","e","r","v","e","r">>, <<"s","q","l","i","t","e">>, <<"s","w","i","f","t">>, <<"t","a","b","l","e","a","u">>, <<"t","e","n","s","o","r","f","l","o","w">>, <<"t","e","r","r","a","f","o","r","m">>, <<"t","e","s","t","i","n","g">>,
    <<"t","y","p","e","s","c","r","i","p","t">>, <<"u","n","i","t"," ","t","e","s","t","i","n","g">>, <<"v","u","e">> }

BUSINESS_SKILLS == {
    <<"a","/","b"," ","t","e","s","t","i","n","g">>, <<"a","c","c","o","u","n","t","i","n","g">>, <<"a","g","i","l","e">>, <<"a","n","a","l","y","t","i","c","a","l"," ","s","k","i","l","l","s">>, <<"b","2","b">>, <<"b","2","c">>,
    <<"b","l","o","o","m","b","e","r","g">>, <<"b","r","a","n","d"," ","s","t","r","a","t","e","g","y">>, <<"b","u","d","g","e","t","i","n","g">>, <<"b","u","s","i","n","e","s","s"," ","s","t","r","a","t","e","g","y">>, <<"c","a","p","i","t","a","l"," ","i","q">>,
    <<"c","o","m","m","u","n","i","c","a","t","i","o","n">>, <<"c","o","n","s","u","l","t","i","n","g">>, <<"c","o","n","t","e","n","t"," ","m","a","r","k","e","t","i","n","g">>, <<"c","o","p","y","w","r","i","t","i","n","g">>,
    <<"c","o","r","p","o","r","a","t","e"," ","s","t","r","a","t","e","g","y">>, <<"c","r","m">>, <<"d","c","f">>, <<"d","i","g","i","t","a","l"," ","m","a","r","k","e","t","i","n","g">>, <<"e","m","a","i","l"," ","m","a","r","k","e","t","i","n","g">>, <<"e","x","c","e","l">>,
    <<"f","i","g","m","a">>, <<"f","i","n","a","n","c","i","a","l"," ","a","n","a","l","y","s","i","s">>, <<"f","i","n","a","n","c","i","a","l"," ","m","o","d","e","l","i","n","g">>, <<"f","o","r","e","c","a","s","t","i","n","g">>, <<"f","p","&","a">>, <<"g","a","a","p">>,
    <<"g","o","o","g","l","e"," ","a","n","a","l","y","t","i","c","s">>, <<"g","r","o","w","t","h"," ","h","a","c","k","i","n","g">>, <<"h","u","b","s","p","o","t">>, <<"i","f","r","s">>, <<"i","n","v","e","s","t","m","e","n","t"," ","b","a","n","k","i","n","g">>,
    <<"k","a","i","z","e","n">>, <<"k","a","n","b","a","n">>, <<"l","b","o">>, <<"l","e","a","d","e","r","s","h","i","p">>, <<"l","e","a","n">>, <<"l","o","g","i","s","t","i","c","s">>,
    <<"m","a","n","a","g","e","m","e","n","t"," ","c","o","n","s","u","l","t","i","n","g">>, <<"m","a","r","k","e","t"," ","r","e","s","e","a","r","c","h">>, <<"m","a","r","k","e","t","i","n","g"," ","a","u","t","o","m","a","t","i","o","n">>, <<"n","e","g","o","t","i","a","t","i","o","n">>,
    <<"o","p","e","r","a","t","i","o","n","s"," ","m","a","n","a","g","e","m","e","n","t">>, <<"p","o","w","e","r","p","o","i","n","t">>, <<"p","r","e","s","e","n","t","a","t","i","o","n">>, <<"p","r","i","v","a","t","e"," ","e","q","u","i","t","y">>,
    <<"p","r","o","b","l","e","m"," ","s","o","l","v","i","n","g">>, <<"p","r","o","c","e","s","s"," ","i","m","p","r","o","v","e","m","e","n","t">>, <<"p","r","o","d","u","c","t"," ","m","a","n","a","g","e","m","e","n","t">>, <<"p","r","o","d","u","c","t"," ","s","t","r","a","t","e","g","y">>,
    <<"p","r","o","g","r","a","m"," ","m","a","n","a","g","e","m","e","n","t">>, <<"p","r","o","j","e","c","t"," ","m","a","n","a","g","e","m","e","n","t">>, <<"r","o","a","d","m","a","p">>, <<"s","a","a","s"," ","s","a","l","e","s">>, <<"s","a","l","e","s","f","o","r","c","e">>,
    <<"s","c","r","u","m">>, <<"s","e","m">>, <<"s","e","o">>, <<"s","i","x"," ","s","i","g","m","a">>, <<"s","o","c","i","a","l"," ","m","e","d","i","a">>, <<"s","t","a","k","e","h","o","l","d","e","r"," ","m","a","n","a","g","e","m","e","n","t">>,
    <<"s","u","p","p","l","y"," ","c","h","a","i","n">>, <<"t","e","a","m"," ","m","a","n","a","g","e","m","e","n","t">>, <<"u","s","e","r"," ","r","e","s","e","a","r","c","h">>, <<"u","s","e","r"," ","s","t","o","r","i","e","s">>, <<"v","a","l","u","a","t","i","o","n">>,
    <<"v","e","n","t","u","r","e"," ","c","a","p","i","t","a","l">>, <<"w","i","r","e","f","r","a","m","i","n","g">> }

ALL_SKILLS == TECHNICAL_SKILLS \cup BUSINESS_SKILLS

\* \b at the gap after the first g characters of s.
WordBoundary(s, g) ==
    LET left == g >= 1 /\ IsWord(s[g])
        right == g < Len(s) /\ IsWord(s[g + 1])
    IN left # right

\* re.search(r'\b' + re.escape(skill) + r'\b', s)
WordSearch(skill, s) ==
    \E i \in 0..(Len(s) - Len(skill)) :
        /\ SubSeq(s, i + 1, i + Len(skill)) = skill
        /\ WordBoundary(s, i)
        /\ WordBoundary(s, i + Len(skill))

extract_skills(text) ==
    LET text_lower == Lower(text)
        found_skills == {skill \in ALL_SKILLS : WordSearch(skill, text_lower)}
    IN Sorted(found_skills)

\* families, in the insertion order of the dict.
families == <<
    <<"software engineer", <<<<"s","o","f","t","w","a","r","e">>, <<"d","e","v","e","l","o","p","e","r">>, <<"e","n","g","i","n","e","e","r">>, <<"s","t","a","c","k">>, <<"c","o","d","i","n","g">>>>>>,
    <<"data scientist",
      <<<<"d","a","t","a">>, <<"s","c","i","e","n","t","i","s","t">>, <<"a","n","a","l","y","s","t">>, <<"m","a","c","h","i","n","e"," ","l","e","a","r","n","i","n","g">>, <<"a","n","a","l","y","t","i","c","s">>>>>>,
    <<"product manager", <<<<"p","r","o","d","u","c","t">>, <<"m","a","n","a","g","e","r">>, <<"o","w","n","e","r">>, <<"r","o","a","d","m","a","p">>, <<"s","t","r","a","t","e","g","y">>>>>>,
    <<"designer", <<<<"d","e","s","i","g","n">>, <<"u","i">>, <<"u","x">>, <<"c","r","e","a","t","i","v","e">>, <<"g","r","a","p","h","i","c">>>>>>,
    <<"marketing", <<<<"m","a","r","k","e","t","i","n","g">>, <<"b","r","a","n","d">>, <<"s","o","c","i","a","l">>, <<"c","o","n","t","e","n","t">>, <<"g","r","o","w","t","h">>>>>>,
    <<"sales", <<<<"s","a","l","e","s">>, <<"b","u","s","i","n","e","s","s"," ","d","e","v","e","l","o","p","m","e","n","t">>, <<"a","c","c","o","u","n","t">>, <<"c","l","i","e","n","t">>>>>>,
    <<"finance", <<<<"f","i","n","a","n","c","e">>, <<"a","c","c","o","u","n","t","i","n","g">>, <<"i","n","v","e","s","t","m","e","n","t">>, <<"a","n","a","l","y","s","t">>, <<"b","a","n","k","i","n","g">>>>>>,
    <<"hr", <<<<"h","r">>, <<"h","u","m","a","n"," ","r","e","s","o","u","r","c","e","s">>, <<"r","e","c","r","u","i","t","e","r">>, <<"t","a","l","e","n","t">>, <<"p","e","o","p","l","e">>>>>>,
    <<"consulting", <<<<"c","o","n","s","u","l","t","a","n","t">>, <<"s","t","r","a","t","e","g","y">>, <<"a","d","v","i","s","o","r","y">>, <<"c","l","i","e","n","t">>>>>>,
    <<"operations", <<<<"o","p","e","r","a","t","i","o","n","s">>, <<"l","o","g","i","s","t","i","c","s">>, <<"s","u","p","p","l","y"," ","c","h","a","i","n">>, <<"p","r","o","c","e","s","s">>>>>> >>

family_score(keywords, combined_text) ==
    Cardinality({k \in DOMAIN keywords : Contains(combined_text, keywords[k])})

\* max(scores, key=scores.get) takes the first family with the highest count.
extract_role_family(text, job_titles) ==
    LET text_lower == Lower(text)
        joined == Join(job_titles, <<" ">>)
        combined_text == text_lower \o <<" ">> \o Lower(joined)
        scores == [f \in DOMAIN families |-> family_score(families[f][2], combined_text)]
        best_family == CHOOSE f \in DOMAIN families :
                           /\ \A g \in DOMAIN families : scores[g] <= scores[f]
                           /\ \A g \in 1..(f - 1) : scores[g] < scores[f]
    IN IF scores[best_family] = 0 THEN "general" ELSE families[best_family][1]

RECURSIVE ParseInt(_)
ParseInt(ds) ==
    IF ds = << >> THEN 0
    ELSE LET init == SubSeq(ds, 1, Len(ds) - 1)
         IN 10 * ParseInt(init) + DigitValue[ds[Len(ds)]]

\* The end of the run of digits that starts at i.
DigitRunEnd(s, i) ==
    CHOOSE j \in i..Len(s) : /\ \A k \in i..j : IsDigit(s[k])
                             /\ (j = Len(s) \/ ~IsDigit(s[j + 1]))
\* The first position from k on that holds no whitespace (Len(s) + 1 at the end).
SkipSpaces(s, k) ==
    CHOOSE j \in k..(Len(s) + 1) : /\ \A m \in k..(j - 1) : IsSpace(s[m])
                                   /\ (j = Len(s) + 1 \/ ~IsSpace(s[j]))
LiteralAt(s, k, lit) == k + Len(lit) - 1 <= Len(s) /\ SubSeq(s, k, k + Len(lit) - 1) = lit
SpaceAt(s, k) == k <= Len(s) /\ IsSpace(s[k])

\* r'(\d+)\+?\s*years?\s+(?:of\s+)?experience' matched at the run of digits
\* starting at i.  Every quantifier is forced: what follows a shorter choice
\* is a character the next item cannot take.
StrictMatchAt(s, i) ==
    LET after_digits == DigitRunEnd(s, i) + 1
        after_plus == IF LiteralAt(s, after_digits, <<"+">>)
                      THEN after_digits + 1 ELSE after_digits
        at_year == SkipSpaces(s, after_plus)
        after_year == at_year + 4
        after_s == IF LiteralAt(s, after_year, <<"s">>) THEN after_year + 1 ELSE after_year
        at_tail == SkipSpaces(s, after_s)
        at_exp == SkipSpaces(s, at_tail + 2)
    IN /\ LiteralAt(s, at_year, <<"y","e","a","r">>)
       /\ SpaceAt(s, after_s)
       /\ \/ LiteralAt(s, at_tail, <<"e","x","p","e","r","i","e","n","c","e">>)
          \/ /\ LiteralAt(s, at_tail, <<"o","f">>)
             /\ SpaceAt(s, at_tail + 2)
             /\ LiteralAt(s, at_exp, <<"e","x","p","e","r","i","e","n","c","e">>)

\* re.findall of the strict pattern leaves one match per run of digits that
\* the rest of the pattern follows: a match holds no digit after its run.
strict_matches(text_lower) ==
    {i \in DOMAIN text_lower :
        /\ IsDigit(text_lower[i])
        /\ (i = 1 \/ ~IsDigit(text_lower[i - 1]))
        /\ StrictMatchAt(text_lower, i)}

Max(S) == CHOOSE x \in S : \A y \in S : y <= x
\* The branch on the years mentioned (lines 148-158) ends in `pass`: nothing it
\* computes reaches the result.
extract_experience_years(text) ==
    LET text_lower == Lower(text)
        candidates == {ParseInt(SubSeq(text_lower, i, DigitRunEnd(text_lower, i))) :
                          i \in strict_matches(text_lower)}
    IN IF candidates # {} THEN Max(candidates) ELSE 1

\* seniority_keywords, in the insertion order of the dict.
seniority_keywords == <<
    <<"junior", <<<<"j","u","n","i","o","r">>, <<"e","n","t","r","y">>, <<"a","s","s","o","c","i","a","t","e">>, <<"g","r","a","d","u","a","t","e">>, <<"i","n","t","e","r","n">>>>>>,
    <<"mid", <<<<"m","i","d","-","l","e","v","e","l">>, <<"i","n","t","e","r","m","e","d","i","a","t","e">>, <<"e","n","g","i","n","e","e","r"," ","i","i">>, <<"d","e","v","e","l","o","p","e","r"," ","i","i">>>>>>,
    <<"senior", <<<<"s","e","n","i","o","r">>, <<"s","r">>, <<"l","e","a","d">>, <<"p","r","i","n","c","i","p","a","l">>, <<"s","t","a","f","f">>, <<"e","x","p","e","r","t">>>>>>,
    <<"lead", <<<<"l","e","a","d">>, <<"t","e","a","m"," ","l","e","a","d">>, <<"t","e","c","h"," ","l","e","a","d">>, <<"e","n","g","i","n","e","e","r","i","n","g"," ","m","a","n","a","g","e","r">>>>>>,
    <<"principal", <<<<"p","r","i","n","c","i","p","a","l">>, <<"d","i","s","t","i","n","g","u","i","s","h","e","d">>, <<"f","e","l","l","o","w">>, <<"a","r","c","h","i","t","e","c","t">>>>>> >>

years_bucket(experience_years) ==
    IF experience_years < 2 THEN "junior"
    ELSE IF experience_years < 5 THEN "mid"
    ELSE IF experience_years < 8 THEN "senior"
    ELSE "lead"

extract_seniority_years_first(text, experience_years) ==
    LET text_lower == Lower(text)
        hit(l) == AnyIn(seniority_keywords[l][2], text_lower)
    IN IF experience_years >= 2 \/ \A l \in DOMAIN seniority_keywords : ~hit(l)
       THEN years_bucket(experience_years)
       ELSE seniority_keywords[CHOOSE l \in DOMAIN seniority_keywords :
                                   hit(l) /\ \A m \in 1..(l - 1) : ~hit(m)][1]

extract_seniority(text, experience_years) ==
    LET text_lower == Lower(text)
        hit(l) == AnyIn(seniority_keywords[l][2], text_lower)
    IN IF \E l \in DOMAIN seniority_keywords : hit(l)
       THEN seniority_keywords[CHOOSE l \in DOMAIN seniority_keywords :
                                   hit(l) /\ \A m \in 1..(l - 1) : ~hit(m)][1]
       ELSE years_bucket(experience_years)

(***************************************************************************)
(* Job normalizer (backend/job_normalization/normalizer.py).  A raw        *)
(* posting is a dict: each key the core reads is absent, holds None, or    *)
(* holds a string.                                                          *)
(***************************************************************************)
Absent == <<"<absent>">>
PyNone == <<"None">>

\* raw_job.get(key, default)
Get(raw_job, key, default) == IF raw_job[key] = Absent THEN default ELSE raw_job[key]
\* A str or None inside an f-string.
Format(value) == IF value = PyNone THEN <<"N","o","n","e">> ELSE value
\* An Optional[str] of the location dict inside an f-string.
FormatOptional(opt) == IF opt = None THEN <<"N","o","n","e">> ELSE opt[1]

\* md5 of the combined strings of RawPostings, as hashlib computes it.
MD5_HEXDIGEST_16 == <<
    <<<<"s","o","f","t","w","a","r","e"," ","e","n","g","i","n","e","e","r","|","a","c","m","e","|","b","a","n","g","a","l","o","r","e",","," ","i","n","d","i","a">>,
      <<"3","b","6","f","7","a","d","f","a","1","5","4","a","c","8","8">>>>,
    <<<<"|","a","c","m","e","|","d","e","l","h","i",","," ","i","n","d","i","a">>,
      <<"6","3","d","a","1","d","8","d","2","4","2","8","b","6","6","1">>>>,
    <<<<"u","n","k","n","o","w","n","|","a","c","m","e","|","d","e","l","h","i",","," ","i","n","d","i","a">>,
      <<"c","4","9","4","0","c","5","4","2","6","e","d","b","3","9","2">>>>,
    <<<<"a","n","a","l","y","s","t","|","i","n","i","t","e","c","h","|","r","e","m","o","t","e">>,
      <<"a","d","4","e","5","c","d","1","b","1","f","b","e","7","d","b">>>>,
    <<<<"n","o","n","e","|","i","n","i","t","e","c","h","|","p","u","n","e",","," ","i","n","d","i","a">>,
      <<"a","1","d","a","4","1","f","9","0","a","e","7","6","c","4","7">>>>,
    <<<<"o","p","e","r","a","t","i","o","n","s"," ","m","a","n","a","g","e","r","|","|">>,
      <<"f","2","6","0","e","0","f","4","5","6","0","8","d","8","9","5">>>>,
    <<<<"d","a","t","a"," ","a","n","a","l","y","s","t","|","n","o","n","e","|","n","o","n","e">>,
      <<"5","e","3","8","7","b","4","0","1","6","6","b","8","f","1","5">>>> >>

\* hashlib.md5(combined.encode()).hexdigest()[:16], tabulated.
md5_hexdigest_16(combined) ==
    MD5_HEXDIGEST_16[CHOOSE i \in DOMAIN MD5_HEXDIGEST_16 :
                        MD5_HEXDIGEST_16[i][1] = combined][2]

_generate_job_id(title, company, location) ==
    LET joined == Format(title) \o <<"|">> \o Format(company) \o <<"|">> \o Format(location)
        combined == Lower(joined)
    IN md5_hexdigest_16(combined)

\* What the try block of normalize_job builds when nothing in it raises.
normalize_job_body(raw_job) ==
    LET title_key == Get(raw_job, "title", << >>)
        company_key == Get(raw_job, "company", << >>)
        location_raw == Get(raw_job, "location_raw", << >>)
        job_id == _generate_job_id(title_key, company_key, location_raw)
        \* `not location_str` holds of None as of ''
        location_arg == IF location_raw = PyNone THEN << >> ELSE location_raw
        location == normalize_location(location_arg)
        description == Get(raw_job, "description", << >>)
        skills == extract_skills(description)
    IN [id |-> job_id,
        title |-> Get(raw_job, "title", <<"U","n","k","n","o","w","n">>),
        company |-> Get(raw_job, "company", <<"U","n","k","n","o","w","n">>),
        location |-> [city |-> location.city, country |-> location.country,
                      type |-> location.location_type, raw |-> location.raw],
        description |-> Prefix(description, 1000),
        required_skills |-> Prefix(skills, 10),
        raw_data |-> raw_job]

\* The try block raises when a step cannot take its argument: text.lower() in
\* extract_skills for a description of None.  The f-string of _generate_job_id
\* and `not location_str` of normalize_location take None.
normalize_job_raises(raw_job) == Get(raw_job, "description", << >>) = PyNone

normalize_job_keeps_failed(raw_job) ==
    IF normalize_job_raises(raw_job)
    THEN Some([normalize_job_body([raw_job EXCEPT !.description = << >>])
                  EXCEPT !.raw_data = raw_job])
    ELSE Some(normalize_job_body(raw_job))

\* try: ... except Exception: return None
normalize_job(raw_job) ==
    IF normalize_job_raises(raw_job) THEN None ELSE Some(normalize_job_body(raw_job))

RECURSIVE deduplicate_loop(_, _, _)
deduplicate_loop(job_list, seen_ids, unique_jobs) ==
    IF job_list = << >> THEN unique_jobs
    ELSE LET job == Head(job_list)
             rest == Tail(job_list)
             seen_more == seen_ids \cup {job.id}
             unique_more == Append(unique_jobs, job)
         IN IF job.id \notin seen_ids
            THEN deduplicate_loop(rest, seen_more, unique_more)
            ELSE deduplicate_loop(rest, seen_ids, unique_jobs)

deduplicate_jobs_last_wins(job_list) ==
    LET kept == SelectSeq([i \in DOMAIN job_list |-> i],
                          LAMBDA i : \A j \in (i + 1)..Len(job_list) :
                                         job_list[j].id # job_list[i].id)
    IN [k \in DOMAIN kept |-> job_list[kept[k]]]

deduplicate_jobs(job_list) == deduplicate_loop(job_list, {}, << >>)

\* job_title.lower() in _calculate_career_fit raises AttributeError for a job
\* whose title is None, and nothing in _score_job or match_jobs catches it.
_score_job_raises(job) == job.title = PyNone

(***************************************************************************)
(* Explanation generator (backend/explanations/generator.py).              *)
(***************************************************************************)
\* The role labels as Python text, for the f-strings.
label_text == <<
    <<"software engineer", <<"s","o","f","t","w","a","r","e"," ","e","n","g","i","n","e","e","r">>>>, <<"data scientist", <<"d","a","t","a"," ","s","c","i","e","n","t","i","s","t">>>>,
    <<"product manager", <<"p","r","o","d","u","c","t"," ","m","a","n","a","g","e","r">>>>, <<"designer", <<"d","e","s","i","g","n","e","r">>>>,
    <<"marketing", <<"m","a","r","k","e","t","i","n","g">>>>, <<"sales", <<"s","a","l","e","s">>>>, <<"finance", <<"f","i","n","a","n","c","e">>>>,
    <<"hr", <<"h","r">>>>, <<"consulting", <<"c","o","n","s","u","l","t","i","n","g">>>>, <<"operations", <<"o","p","e","r","a","t","i","o","n","s">>>>,
    <<"strategy", <<"s","t","r","a","t","e","g","y">>>>, <<"general", <<"g","e","n","e","r","a","l">>>> >>

ProfileSchema(primary_role, seniority, skills, tools, skill_clusters) ==
    [primary_role |-> primary_role, seniority |-> seniority, skills |-> skills,
     tools |-> tools, skill_clusters |-> skill_clusters]

RGeq(a, b) == RLeq(b, a)

_generate_why_match(job_match, prof) ==
    LET job == job_match.job
        role == DictGet(label_text, prof.primary_role, << >>)
        title_lower == Lower(job.title)
        description_lower == Lower(job.description)
        skill_reason ==
            IF RGeq(job_match.skill_score, Rat(6, 10))
            THEN <<<<"S","t","r","o","n","g"," ","a","l","i","g","n","m","e","n","t"," ","w","i","t","h"," ","y","o","u","r"," ">> \o role \o <<" ","b","a","c","k","g","r","o","u","n","d">>>>
            ELSE IF RGeq(job_match.skill_score, Rat(4, 10))
            THEN <<<<"G","o","o","d"," ","f","i","t"," ","f","o","r"," ","y","o","u","r"," ">> \o role \o <<" ","e","x","p","e","r","i","e","n","c","e">>>>
            ELSE << >>
        career_reason ==
            IF RGeq(job_match.career_score, Rat(8, 10))
            THEN <<<<"E","x","c","e","l","l","e","n","t"," ","c","a","r","e","e","r"," ","p","r","o","g","r","e","s","s","i","o","n"," ","o","p","p","o","r","t","u","n","i","t","y">>>>
            ELSE IF RGeq(job_match.career_score, Rat(6, 10))
            THEN <<<<"A","l","i","g","n","s"," ","w","i","t","h"," ","y","o","u","r"," ","c","a","r","e","e","r"," ","l","e","v","e","l">>>>
            ELSE << >>
        location_reason ==
            IF RGeq(job_match.location_score, Rat(9, 10)) THEN <<<<"P","e","r","f","e","c","t"," ","l","o","c","a","t","i","o","n"," ","m","a","t","c","h">>>>
            ELSE IF RGeq(job_match.location_score, Rat(7, 10)) THEN <<<<"G","o","o","d"," ","l","o","c","a","t","i","o","n"," ","f","i","t">>>>
            ELSE << >>
        cluster_match ==
            \E c \in DOMAIN prof.skill_clusters :
                \/ Contains(title_lower, prof.skill_clusters[c])
                \/ Contains(description_lower, prof.skill_clusters[c])
        first_clusters == Prefix(prof.skill_clusters, 2)
        cluster_reason ==
            IF prof.skill_clusters # << >> /\ cluster_match
            THEN <<<<"M","a","t","c","h","e","s"," ","y","o","u","r"," ","e","x","p","e","r","t","i","s","e"," ","i","n"," ">> \o Join(first_clusters, <<","," ">>)>>
            ELSE << >>
        found == skill_reason \o career_reason \o location_reason \o cluster_reason
        reasons == IF found = << >> THEN <<<<"P","o","t","e","n","t","i","a","l"," ","f","i","t"," ","b","a","s","e","d"," ","o","n"," ","y","o","u","r"," ","b","a","c","k","g","r","o","u","n","d">>>>
                   ELSE found
    IN Join(reasons, <<"."," ">>) \o <<".">>

_find_skill_matches(user_skills, job_skills) ==
    LET user_set == {Lower(user_skills[i]) : i \in DOMAIN user_skills}
        job_set == {Lower(job_skills[i]) : i \in DOMAIN job_skills}
        matches == user_set \cap job_set
    IN SelectSeq(user_skills, LAMBDA skill : Lower(skill) \in matches)

_find_skill_gaps(user_skills, job_skills) ==
    LET user_set == {Lower(user_skills[i]) : i \in DOMAIN user_skills}
        job_set == {Lower(job_skills[i]) : i \in DOMAIN job_skills}
        gaps == job_set \ user_set
    IN SelectSeq(job_skills, LAMBDA skill : Lower(skill) \in gaps)

_generate_location_reasoning(job_match, job) ==
    LET location == job.location
    IN IF location.type = "remote" THEN <<"R","e","m","o","t","e"," ","p","o","s","i","t","i","o","n"," ","-"," ","w","o","r","k"," ","f","r","o","m"," ","a","n","y","w","h","e","r","e">>
       ELSE IF RGeq(job_match.location_score, Rat(9, 10))
       THEN <<"L","o","c","a","t","e","d"," ","i","n"," ","y","o","u","r"," ","p","r","e","f","e","r","r","e","d"," ","a","r","e","a",":"," ">> \o location.raw
       ELSE IF RGeq(job_match.location_score, Rat(7, 10))
       THEN <<"S","a","m","e"," ","c","o","u","n","t","r","y"," ","a","s"," ","y","o","u","r"," ","p","r","e","f","e","r","e","n","c","e",":"," ">> \o FormatOptional(location.country)
       ELSE IF RGeq(job_match.location_score, Rat(5, 10))
       THEN <<"R","e","l","o","c","a","t","i","o","n"," ","o","p","p","o","r","t","u","n","i","t","y"," ","t","o"," ">> \o location.raw
       ELSE <<"L","o","c","a","t","i","o","n",":"," ">> \o location.raw

generate_explanation_any_content(job_match, prof) ==
    LET job == job_match.job
        why_match == _generate_why_match(job_match, prof)
        user_skills == prof.skills \o prof.tools
        skill_matches == _find_skill_matches(user_skills, job.required_skills)
        skill_gaps == _find_skill_gaps(user_skills, job.required_skills)
        location_reasoning == _generate_location_reasoning(job_match, job)
    IN IF why_match = << >> /\ skill_matches = << >> THEN None
       ELSE Some([why_match |-> why_match,
                  skill_matches |-> Prefix(skill_matches, 8),
                  skill_gaps |-> Prefix(skill_gaps, 5),
                  location_reasoning |-> location_reasoning])

generate_explanation(job_match, prof) ==
    LET job == job_match.job
        why_match == _generate_why_match(job_match, prof)
        user_skills == prof.skills \o prof.tools
        skill_matches == _find_skill_matches(user_skills, job.required_skills)
        skill_gaps == _find_skill_gaps(user_skills, job.required_skills)
        location_reasoning == _generate_location_reasoning(job_match, job)
    IN IF why_match = << >> \/ skill_matches = << >> THEN None
       ELSE Some([why_match |-> why_match,
                  skill_matches |-> Prefix(skill_matches, 8),
                  skill_gaps |-> Prefix(skill_gaps, 5),
                  location_reasoning |-> location_reasoning])

(***************************************************************************)
(* Resume parser (backend/resume_ingestion/parser.py).                     *)
(***************************************************************************)
\* str.strip() without arguments: every leading and trailing whitespace.
RECURSIVE LStripWhitespace(_)
LStripWhitespace(s) ==
    IF s # << >> /\ IsSpace(Head(s)) THEN LET t == Tail(s) IN LStripWhitespace(t) ELSE s
RECURSIVE RStripWhitespace(_)
RStripWhitespace(s) ==
    IF s # << >> /\ IsSpace(s[Len(s)])
    THEN LET t == SubSeq(s, 1, Len(s) - 1) IN RStripWhitespace(t)
    ELSE s
StripWhitespace(s) == LET l == LStripWhitespace(s) IN RStripWhitespace(l)

resume_indicators == <<
    <<"e","x","p","e","r","i","e","n","c","e">>, <<"e","d","u","c","a","t","i","o","n">>, <<"s","k","i","l","l","s">>, <<"w","o","r","k">>, <<"e","m","p","l","o","y","m","e","n","t">>,
    <<"u","n","i","v","e","r","s","i","t","y">>, <<"c","o","l","l","e","g","e">>, <<"d","e","g","r","e","e">>, <<"j","o","b">>, <<"p","o","s","i","t","i","o","n">>,
    <<"p","r","o","j","e","c","t">>, <<"s","u","m","m","a","r","y">>, <<"c","o","n","t","a","c","t">>, <<"e","m","a","i","l">>, <<"p","h","o","n","e">> >>

indicator_count(text_lower) ==
    Cardinality({i \in DOMAIN resume_indicators : Contains(text_lower, resume_indicators[i])})

validate_resume_content(text) ==
    LET stripped == StripWhitespace(text)
    IN IF text = << >> \/ Len(stripped) < 10 THEN FALSE
       ELSE LET text_lower == Lower(text)
            IN IF indicator_count(text_lower) < 1 THEN TRUE ELSE TRUE

(***************************************************************************)
(* External search recommendations (backend/external_search).  The         *)
(* functions normalize_location and generate_explanation of this package   *)
(* carry the name of their module, role_normalizer and url_generator, in   *)
(* front: the location normalizer and the explanation generator above hold *)
(* the plain names.                                                        *)
(***************************************************************************)
ROLE_EXPANSIONS == <<
    <<<<"O","p","e","r","a","t","i","o","n","s"," ","A","n","a","l","y","s","t">>,
      <<<<"B","u","s","i","n","e","s","s"," ","O","p","e","r","a","t","i","o","n","s">>, <<"P","r","o","g","r","a","m"," ","M","a","n","a","g","e","m","e","n","t">>, <<"P","M","O">>, <<"S","t","r","a","t","e","g","y"," ","&"," ","O","p","e","r","a","t","i","o","n","s">>, <<"O","p","e","r","a","t","i","o","n","s"," ","M","a","n","a","g","e","r">>>>>>,
    <<<<"O","p","e","r","a","t","i","o","n","s"," ","M","a","n","a","g","e","r">>,
      <<<<"B","u","s","i","n","e","s","s"," ","O","p","e","r","a","t","i","o","n","s"," ","M","a","n","a","g","e","r">>, <<"P","r","o","g","r","a","m"," ","M","a","n","a","g","e","r">>, <<"O","p","e","r","a","t","i","o","n","s"," ","L","e","a","d">>, <<"P","r","o","c","e","s","s"," ","E","x","c","e","l","l","e","n","c","e"," ","M","a","n","a","g","e","r">>>>>>,
    <<<<"S","u","p","p","l","y"," ","C","h","a","i","n"," ","A","n","a","l","y","s","t">>,
      <<<<"S","u","p","p","l","y"," ","C","h","a","i","n"," ","M","a","n","a","g","e","r">>, <<"L","o","g","i","s","t","i","c","s"," ","M","a","n","a","g","e","r">>, <<"S","u","p","p","l","y"," ","C","h","a","i","n"," ","O","p","e","r","a","t","i","o","n","s">>, <<"P","r","o","c","u","r","e","m","e","n","t"," ","M","a","n","a","g","e","r">>>>>>,
    <<<<"S","t","r","a","t","e","g","y"," ","C","o","n","s","u","l","t","a","n","t">>,
      <<<<"B","u","s","i","n","e","s","s"," ","S","t","r","a","t","e","g","y">>, <<"C","o","r","p","o","r","a","t","e"," ","S","t","r","a","t","e","g","y">>, <<"S","t","r","a","t","e","g","y"," ","M","a","n","a","g","e","r">>, <<"M","a","n","a","g","e","m","e","n","t"," ","C","o","n","s","u","l","t","a","n","t">>, <<"B","u","s","i","n","e","s","s"," ","A","n","a","l","y","s","t">>>>>>,
    <<<<"B","u","s","i","n","e","s","s"," ","A","n","a","l","y","s","t">>,
      <<<<"S","t","r","a","t","e","g","y"," ","A","n","a","l","y","s","t">>, <<"M","a","n","a","g","e","m","e","n","t"," ","C","o","n","s","u","l","t","a","n","t">>, <<"B","u","s","i","n","e","s","s"," ","S","t","r","a","t","e","g","y">>, <<"C","o","r","p","o","r","a","t","e"," ","S","t","r","a","t","e","g","y"," ","A","n","a","l","y","s","t">>>>>>,
    <<<<"F","i","n","a","n","c","e"," ","A","n","a","l","y","s","t">>,
      <<<<"F","i","n","a","n","c","i","a","l"," ","A","n","a","l","y","s","t">>, <<"I","n","v","e","s","t","m","e","n","t"," ","A","n","a","l","y","s","t">>, <<"C","o","r","p","o","r","a","t","e"," ","F","i","n","a","n","c","e">>, <<"F","P","&","A"," ","A","n","a","l","y","s","t">>, <<"F","i","n","a","n","c","e"," ","M","a","n","a","g","e","r">>>>>>,
    <<<<"F","i","n","a","n","c","i","a","l"," ","A","n","a","l","y","s","t">>,
      <<<<"I","n","v","e","s","t","m","e","n","t"," ","A","n","a","l","y","s","t">>, <<"F","P","&","A"," ","A","n","a","l","y","s","t">>, <<"C","o","r","p","o","r","a","t","e"," ","F","i","n","a","n","c","e"," ","A","n","a","l","y","s","t">>, <<"F","i","n","a","n","c","e"," ","A","s","s","o","c","i","a","t","e">>>>>>,
    <<<<"I","n","v","e","s","t","m","e","n","t"," ","A","n","a","l","y","s","t">>,
      <<<<"I","n","v","e","s","t","m","e","n","t"," ","B","a","n","k","i","n","g"," ","A","n","a","l","y","s","t">>, <<"E","q","u","i","t","y"," ","R","e","s","e","a","r","c","h"," ","A","n","a","l","y","s","t">>, <<"F","i","n","a","n","c","i","a","l"," ","A","n","a","l","y","s","t">>, <<"P","o","r","t","f","o","l","i","o"," ","A","n","a","l","y","s","t">>>>>>,
    <<<<"M","a","r","k","e","t","i","n","g"," ","M","a","n","a","g","e","r">>,
      <<<<"G","r","o","w","t","h"," ","M","a","r","k","e","t","i","n","g">>, <<"D","i","g","i","t","a","l"," ","M","a","r","k","e","t","i","n","g"," ","M","a","n","a","g","e","r">>, <<"B","r","a","n","d"," ","M","a","n","a","g","e","r">>, <<"P","r","o","d","u","c","t"," ","M","a","r","k","e","t","i","n","g">>, <<"M","a","r","k","e","t","i","n","g"," ","L","e","a","d">>>>>>,
    <<<<"B","r","a","n","d"," ","M","a","n","a","g","e","r">>,
      <<<<"P","r","o","d","u","c","t"," ","M","a","r","k","e","t","i","n","g"," ","M","a","n","a","g","e","r">>, <<"M","a","r","k","e","t","i","n","g"," ","M","a","n","a","g","e","r">>, <<"B","r","a","n","d"," ","M","a","r","k","e","t","i","n","g">>, <<"C","a","t","e","g","o","r","y"," ","M","a","n","a","g","e","r">>>>>>,
    <<<<"D","i","g","i","t","a","l"," ","M","a","r","k","e","t","i","n","g"," ","M","a","n","a","g","e","r">>,
      <<<<"G","r","o","w","t","h"," ","M","a","r","k","e","t","i","n","g"," ","M","a","n","a","g","e","r">>, <<"P","e","r","f","o","r","m","a","n","c","e"," ","M","a","r","k","e","t","i","n","g">>, <<"M","a","r","k","e","t","i","n","g"," ","M","a","n","a","g","e","r">>, <<"D","e","m","a","n","d"," ","G","e","n","e","r","a","t","i","o","n"," ","M","a","n","a","g","e","r">>>>>>,
    <<<<"S","a","l","e","s"," ","M","a","n","a","g","e","r">>,
      <<<<"B","u","s","i","n","e","s","s"," ","D","e","v","e","l","o","p","m","e","n","t"," ","M","a","n","a","g","e","r">>, <<"A","c","c","o","u","n","t"," ","M","a","n","a","g","e","r">>, <<"S","a","l","e","s"," ","L","e","a","d">>, <<"R","e","v","e","n","u","e"," ","M","a","n","a","g","e","r">>>>>>,
    <<<<"B","u","s","i","n","e","s","s"," ","D","e","v","e","l","o","p","m","e","n","t"," ","M","a","n","a","g","e","r">>,
      <<<<"S","a","l","e","s"," ","M","a","n","a","g","e","r">>, <<"A","c","c","o","u","n","t"," ","M","a","n","a","g","e","r">>, <<"P","a","r","t","n","e","r","s","h","i","p"," ","M","a","n","a","g","e","r">>, <<"G","r","o","w","t","h"," ","M","a","n","a","g","e","r">>>>>>,
    <<<<"H","R"," ","M","a","n","a","g","e","r">>,
      <<<<"H","R"," ","B","u","s","i","n","e","s","s"," ","P","a","r","t","n","e","r">>, <<"T","a","l","e","n","t"," ","A","c","q","u","i","s","i","t","i","o","n"," ","M","a","n","a","g","e","r">>, <<"P","e","o","p","l","e"," ","O","p","e","r","a","t","i","o","n","s">>, <<"H","R"," ","L","e","a","d">>>>>>,
    <<<<"T","a","l","e","n","t"," ","A","c","q","u","i","s","i","t","i","o","n">>,
      <<<<"R","e","c","r","u","i","t","m","e","n","t"," ","M","a","n","a","g","e","r">>, <<"H","R"," ","B","u","s","i","n","e","s","s"," ","P","a","r","t","n","e","r">>, <<"T","a","l","e","n","t"," ","M","a","n","a","g","e","r">>, <<"H","i","r","i","n","g"," ","M","a","n","a","g","e","r">>>>>>,
    <<<<"P","r","o","d","u","c","t"," ","M","a","n","a","g","e","r">>,
      <<<<"P","r","o","d","u","c","t"," ","M","a","n","a","g","e","m","e","n","t">>, <<"A","s","s","o","c","i","a","t","e"," ","P","r","o","d","u","c","t"," ","M","a","n","a","g","e","r">>, <<"P","r","o","d","u","c","t"," ","L","e","a","d">>, <<"P","r","o","d","u","c","t"," ","S","t","r","a","t","e","g","y">>>>>>,
    <<<<"G","e","n","e","r","a","l"," ","M","a","n","a","g","e","r">>,
      <<<<"B","u","s","i","n","e","s","s"," ","M","a","n","a","g","e","r">>, <<"O","p","e","r","a","t","i","o","n","s"," ","H","e","a","d">>, <<"D","e","p","a","r","t","m","e","n","t"," ","H","e","a","d">>, <<"U","n","i","t"," ","M","a","n","a","g","e","r">>>>>> >>

ROLE_FAMILY_DEFAULTS == <<
    <<<<"O","p","e","r","a","t","i","o","n","s">>,
      <<<<"B","u","s","i","n","e","s","s"," ","O","p","e","r","a","t","i","o","n","s">>, <<"O","p","e","r","a","t","i","o","n","s"," ","M","a","n","a","g","e","r">>, <<"P","r","o","g","r","a","m"," ","M","a","n","a","g","e","r">>>>>>,
    <<<<"F","i","n","a","n","c","e">>,
      <<<<"F","i","n","a","n","c","i","a","l"," ","A","n","a","l","y","s","t">>, <<"F","i","n","a","n","c","e"," ","M","a","n","a","g","e","r">>, <<"F","P","&","A"," ","A","n","a","l","y","s","t">>>>>>,
    <<<<"M","a","r","k","e","t","i","n","g">>,
      <<<<"M","a","r","k","e","t","i","n","g"," ","M","a","n","a","g","e","r">>, <<"B","r","a","n","d"," ","M","a","n","a","g","e","r">>, <<"G","r","o","w","t","h"," ","M","a","r","k","e","t","i","n","g">>>>>>,
    <<<<"S","t","r","a","t","e","g","y">>,
      <<<<"S","t","r","a","t","e","g","y"," ","M","a","n","a","g","e","r">>, <<"B","u","s","i","n","e","s","s"," ","A","n","a","l","y","s","t">>, <<"M","a","n","a","g","e","m","e","n","t"," ","C","o","n","s","u","l","t","a","n","t">>>>>>,
    <<<<"H","R">>,
      <<<<"H","R"," ","M","a","n","a","g","e","r">>, <<"T","a","l","e","n","t"," ","A","c","q","u","i","s","i","t","i","o","n">>, <<"H","R"," ","B","u","s","i","n","e","s","s"," ","P","a","r","t","n","e","r">>>>>>,
    <<<<"S","a","l","e","s">>,
      <<<<"S","a","l","e","s"," ","M","a","n","a","g","e","r">>, <<"B","u","s","i","n","e","s","s"," ","D","e","v","e","l","o","p","m","e","n","t">>, <<"A","c","c","o","u","n","t"," ","M","a","n","a","g","e","r">>>>>>,
    <<<<"C","o","n","s","u","l","t","i","n","g">>,
      <<<<"M","a","n","a","g","e","m","e","n","t"," ","C","o","n","s","u","l","t","a","n","t">>, <<"S","t","r","a","t","e","g","y"," ","C","o","n","s","u","l","t","a","n","t">>, <<"B","u","s","i","n","e","s","s"," ","A","n","a","l","y","s","t">>>>>>,
    <<<<"P","r","o","d","u","c","t"," ","M","a","n","a","g","e","m","e","n","t">>,
      <<<<"P","r","o","d","u","c","t"," ","M","a","n","a","g","e","r">>, <<"A","s","s","o","c","i","a","t","e"," ","P","r","o","d","u","c","t"," ","M","a","n","a","g","e","r">>>>>>,
    <<<<"G","e","n","e","r","a","l"," ","M","a","n","a","g","e","m","e","n","t">>,
      <<<<"G","e","n","e","r","a","l"," ","M","a","n","a","g","e","r">>, <<"B","u","s","i","n","e","s","s"," ","M","a","n","a","g","e","r">>>>>> >>

\* ROLE_EXPANSIONS[key] and ROLE_FAMILY_DEFAULTS[key] of a key that is present.
Lookup(dict, key) == dict[CHOOSE i \in DOMAIN dict : dict[i][1] = key][2]
HasKey(dict, key) == \E i \in DOMAIN dict : dict[i][1] = key

normalize_role(primary_role, role_family) ==
    IF HasKey(ROLE_EXPANSIONS, primary_role) THEN Lookup(ROLE_EXPANSIONS, primary_role)
    ELSE IF HasKey(ROLE_FAMILY_DEFAULTS, role_family)
         THEN Lookup(ROLE_FAMILY_DEFAULTS, role_family)
         ELSE <<primary_role>>

\* select_top_roles with mba_patterns = {}, as generate_external_searches calls it.
select_top_roles(expanded_roles, resume_experience) ==
    IF expanded_roles = << >> THEN << >> ELSE Prefix(expanded_roles, 2)

get_experience_bands(years) ==
    IF years < 1 THEN <<<<"0","-","1"," ","y","e","a","r","s">>, <<"F","r","e","s","h","e","r">>>>
    ELSE IF years < 2 THEN <<<<"0","-","2"," ","y","e","a","r","s">>, <<"1","-","3"," ","y","e","a","r","s">>>>
    ELSE IF years < 3 THEN <<<<"1","-","3"," ","y","e","a","r","s">>, <<"2","-","4"," ","y","e","a","r","s">>>>
    ELSE IF years < 5 THEN <<<<"2","-","4"," ","y","e","a","r","s">>, <<"3","-","5"," ","y","e","a","r","s">>>>
    ELSE IF years < 7 THEN <<<<"4","-","7"," ","y","e","a","r","s">>, <<"5","-","8"," ","y","e","a","r","s">>>>
    ELSE <<<<"7","+"," ","y","e","a","r","s">>, <<"5","-","1","0"," ","y","e","a","r","s">>>>

INDIA_CITIES == { <<"m","u","m","b","a","i">>, <<"b","a","n","g","a","l","o","r","e">>, <<"b","e","n","g","a","l","u","r","u">>, <<"d","e","l","h","i">>, <<"g","u","r","g","a","o","n">>, <<"g","u","r","u","g","r","a","m">>,
                  <<"h","y","d","e","r","a","b","a","d">>, <<"p","u","n","e">>, <<"c","h","e","n","n","a","i">>, <<"k","o","l","k","a","t","a">>, <<"a","h","m","e","d","a","b","a","d">>, <<"n","o","i","d","a">> }
UAE_CITIES == { <<"d","u","b","a","i">>, <<"a","b","u"," ","d","h","a","b","i">>, <<"s","h","a","r","j","a","h">>, <<"a","j","m","a","n">> }

\* The list that one preferred location adds to `normalized`.
normalized_entry(loc, location_flexibility) ==
    LET loc_lower == Lower(loc)
    IN IF loc_lower \in INDIA_CITIES
       THEN IF loc_lower \in { <<"b","e","n","g","a","l","u","r","u">>, <<"b","a","n","g","a","l","o","r","e">> } THEN << <<"B","a","n","g","a","l","o","r","e">> >>
            ELSE IF loc_lower \in { <<"g","u","r","g","a","o","n">>, <<"g","u","r","u","g","r","a","m">> } THEN << <<"G","u","r","g","a","o","n">> >>
            ELSE << Title(loc) >>
       ELSE IF loc_lower \in UAE_CITIES THEN << Title(loc) >>
       ELSE IF Contains(loc_lower, <<"i","n","d","i","a">>)
            THEN IF location_flexibility = "flexible" THEN << <<"P","A","N"," ","I","n","d","i","a">> >>
                 ELSE << <<"I","n","d","i","a">> >>
       ELSE IF Contains(loc_lower, <<"u","a","e">>) THEN << <<"U","A","E">> >>
       ELSE IF Contains(loc_lower, <<"r","e","m","o","t","e">>) THEN << <<"R","e","m","o","t","e">> >>
       ELSE << >>

RECURSIVE normalized_locations(_, _)
normalized_locations(preferred_locations, location_flexibility) ==
    IF preferred_locations = << >> THEN << >>
    ELSE LET n == Len(preferred_locations)
             front == SubSeq(preferred_locations, 1, n - 1)
             normalized == normalized_locations(front, location_flexibility)
         IN normalized \o normalized_entry(preferred_locations[n], location_flexibility)

role_normalizer_normalize_location(preferred_locations, location_flexibility) ==
    LET normalized == normalized_locations(preferred_locations, location_flexibility)
    IN IF normalized # << >> THEN normalized ELSE << <<"P","A","N"," ","I","n","d","i","a">> >>

\* str.replace(' ', '-')
Replace(s, old, new) == [i \in 1..Len(s) |-> IF s[i] = old THEN new ELSE s[i]]

\* urllib.parse.quote_plus on the characters of the role, band and location texts.
PERCENT_ENCODED == << <<"&", <<"%","2","6">>>>, <<"+", <<"%","2","B">>>> >>
QuoteChar(c) ==
    IF c = " " THEN <<"+">>
    ELSE IF IsCased(c) \/ IsDigit(c) \/ c \in {"_", ".", "-", "~"} THEN <<c>>
    ELSE Lookup(PERCENT_ENCODED, c)
RECURSIVE quote_plus(_)
quote_plus(s) ==
    IF s = << >> THEN << >>
    ELSE LET rest == Tail(s)
             quoted == quote_plus(rest)
         IN QuoteChar(Head(s)) \o quoted

UrlData(url, role_focus, location_focus, experience_band, url_type) ==
    [url |-> url, role_focus |-> role_focus, location_focus |-> location_focus,
     experience_band |-> experience_band, url_type |-> url_type]

Slug(s) == Replace(Lower(s), " ", "-")

naukri_url(role, location, experience_band) ==
    <<"h","t","t","p","s",":","/","/","w","w","w",".","n","a","u","k","r","i",".","c","o","m","/">> \o Slug(role) \o <<"-","j","o","b","s","-","i","n","-">> \o Slug(location)
    \o <<"?","k","=">> \o quote_plus(role) \o <<"&","e","x","p","e","r","i","e","n","c","e","=">> \o quote_plus(experience_band)

naukri_url_anywhere(role, experience_band) ==
    <<"h","t","t","p","s",":","/","/","w","w","w",".","n","a","u","k","r","i",".","c","o","m","/">> \o Slug(role) \o <<"-","j","o","b","s">>
    \o <<"?","k","=">> \o quote_plus(role) \o <<"&","e","x","p","e","r","i","e","n","c","e","=">> \o quote_plus(experience_band)

generate_naukri_urls(roles, experience_bands, locations) ==
    IF roles = << >> \/ experience_bands = << >> \/ locations = << >> THEN << >>
    ELSE LET primary_role == roles[1]
             primary_exp == experience_bands[1]
             primary_location == locations[1]
             named == primary_location # <<"P","A","N"," ","I","n","d","i","a">> /\ primary_location # <<"R","e","m","o","t","e">>
             url1 == IF named
                     THEN << UrlData(naukri_url(primary_role, primary_location, primary_exp),
                                     primary_role, primary_location, primary_exp,
                                     "exact_match") >>
                     ELSE << >>
             url2 == IF Len(locations) > 1 \/ primary_location = <<"P","A","N"," ","I","n","d","i","a">>
                     THEN << UrlData(naukri_url_anywhere(primary_role, primary_exp),
                                     primary_role, <<"P","A","N"," ","I","n","d","i","a">>, primary_exp,
                                     "flexible_location") >>
                     ELSE << >>
             url3 == IF Len(roles) > 1
                     THEN IF named
                          THEN << UrlData(naukri_url(roles[2], primary_location, primary_exp),
                                          roles[2], primary_location, primary_exp,
                                          "adjacent_role") >>
                          ELSE << UrlData(naukri_url_anywhere(roles[2], primary_exp),
                                          roles[2], <<"P","A","N"," ","I","n","d","i","a">>, primary_exp,
                                          "adjacent_role") >>
                     ELSE << >>
             urls == url1 \o url2 \o url3
         IN Prefix(urls, 3)

generate_instahyre_urls(roles, experience_bands, locations) ==
    IF roles = << >> \/ experience_bands = << >> \/ locations = << >> THEN << >>
    ELSE LET primary_role == roles[1]
             primary_exp == experience_bands[1]
             primary_location == locations[1]
             url1 == IF primary_location # <<"P","A","N"," ","I","n","d","i","a">> /\ primary_location # <<"R","e","m","o","t","e">>
                     THEN << UrlData(<<"h","t","t","p","s",":","/","/","w","w","w",".","i","n","s","t","a","h","y","r","e",".","c","o","m","/","s","e","a","r","c","h","-","j","o","b","s","/","?","q","=">>
                                        \o quote_plus(primary_role) \o <<"&","l","=">>
                                        \o quote_plus(primary_location) \o <<"&","e","x","p","=">>
                                        \o quote_plus(primary_exp),
                                     primary_role, primary_location, primary_exp,
                                     "exact_match") >>
                     ELSE << >>
             url2 == IF Len(locations) > 1 \/ primary_location = <<"P","A","N"," ","I","n","d","i","a">>
                     THEN << UrlData(<<"h","t","t","p","s",":","/","/","w","w","w",".","i","n","s","t","a","h","y","r","e",".","c","o","m","/","s","e","a","r","c","h","-","j","o","b","s","/","?","q","=">>
                                        \o quote_plus(primary_role) \o <<"&","e","x","p","=">>
                                        \o quote_plus(primary_exp),
                                     primary_role, <<"A","l","l"," ","L","o","c","a","t","i","o","n","s">>, primary_exp,
                                     "flexible_location") >>
                     ELSE << >>
             urls == url1 \o url2
         IN Prefix(urls, 2)

InList(x, l) == \E i \in DOMAIN l : l[i] = x

\* The score that the loop of rank_urls gives one URL.
relevance_score(url_data, user_preferences) ==
    (IF InList(url_data.location_focus, user_preferences.preferred_locations) THEN 5 ELSE 0)
    + (IF InList(url_data.role_focus, user_preferences.primary_roles) THEN 5 ELSE 0)
    + (IF url_data.location_focus \in { <<"P","A","N"," ","I","n","d","i","a">>, <<"A","l","l"," ","L","o","c","a","t","i","o","n","s">> } THEN 3 ELSE 0)
    + (IF url_data.url_type = "exact_match" THEN 2
       ELSE IF url_data.url_type = "adjacent_role" THEN 1 ELSE 0)

\* urls.sort(key=relevance_score, reverse=True): stable, descending.
RECURSIVE sort_by_relevance(_)
sort_by_relevance(urls) ==
    IF urls = << >> THEN << >>
    ELSE LET best == CHOOSE i \in DOMAIN urls :
                        /\ \A j \in DOMAIN urls : urls[j].relevance_score <= urls[i].relevance_score
                        /\ \A j \in 1..(i - 1) : urls[j].relevance_score < urls[i].relevance_score
             others == SubSeq(urls, 1, best - 1) \o SubSeq(urls, best + 1, Len(urls))
             sorted == sort_by_relevance(others)
         IN <<urls[best]>> \o sorted

rank_urls(urls, user_preferences) ==
    LET scored == [i \in DOMAIN urls |->
                      [url |-> urls[i].url, role_focus |-> urls[i].role_focus,
                       location_focus |-> urls[i].location_focus,
                       experience_band |-> urls[i].experience_band,
                       url_type |-> urls[i].url_type,
                       relevance_score |-> relevance_score(urls[i], user_preferences)]]
        ranked == sort_by_relevance(scored)
    IN SelectSeq(ranked, LAMBDA url : url.relevance_score >= 5)

\* templates[url_type].format(role=..., location=..., exp=...)
url_generator_generate_explanation(url_data) ==
    IF url_data.url_type = "flexible_location"
    THEN <<"E","x","p","a","n","d","e","d"," ","t","o"," ">> \o url_data.location_focus \o <<" ","t","o"," ","f","i","n","d"," ","m","o","r","e"," ">>
         \o url_data.role_focus \o <<" ","o","p","p","o","r","t","u","n","i","t","i","e","s",".">>
    ELSE IF url_data.url_type = "adjacent_role"
    THEN <<"I","n","c","l","u","d","e","s"," ">> \o url_data.role_focus \o <<" ","r","o","l","e","s"," ","c","o","m","m","o","n"," ","i","n"," ","M","B","A"," ","h","i","r","i","n","g"," ","f","o","r"," ">>
         \o url_data.experience_band \o <<" ","p","r","o","f","i","l","e","s",".">>
    ELSE <<"B","a","s","e","d"," ","o","n"," ","y","o","u","r"," ">> \o url_data.role_focus \o <<" ","e","x","p","e","r","i","e","n","c","e"," ","a","n","d"," ">>
         \o url_data.location_focus \o <<" ","p","r","e","f","e","r","e","n","c","e",".">>

ExternalSearchRecommendation(platform, url_data) ==
    [platform |-> platform, role_focus |-> url_data.role_focus,
     location_focus |-> url_data.location_focus,
     experience_band |-> url_data.experience_band, search_url |-> url_data.url,
     why_this_search |-> url_generator_generate_explanation(url_data),
     relevance_score |-> url_data.relevance_score]

SearchGenerationRequest(primary_roles, role_family, years_of_experience, preferred_locations, location_flexibility) ==
    [primary_roles |-> primary_roles, role_family |-> role_family,
     years_of_experience |-> years_of_experience,
     preferred_locations |-> preferred_locations,
     location_flexibility |-> location_flexibility]

generate_external_searches(request) ==
    LET primary_role == IF request.primary_roles # << >> THEN request.primary_roles[1]
                        ELSE <<"B","u","s","i","n","e","s","s"," ","A","n","a","l","y","s","t">>
        expanded_roles == normalize_role(primary_role, request.role_family)
        selected == select_top_roles(expanded_roles, request.years_of_experience)
        top_roles == IF selected = << >> THEN Prefix(expanded_roles, 2) ELSE selected
        experience_bands == get_experience_bands(request.years_of_experience)
        locations == role_normalizer_normalize_location(request.preferred_locations,
                                                        request.location_flexibility)
        user_prefs == [preferred_locations |-> request.preferred_locations,
                       primary_roles |-> request.primary_roles]
        naukri_url_data == rank_urls(generate_naukri_urls(top_roles, experience_bands, locations),
                                     user_prefs)
        instahyre_url_data == rank_urls(generate_instahyre_urls(top_roles, experience_bands,
                                                                locations),
                                        user_prefs)
        naukri_recommendations ==
            [i \in DOMAIN naukri_url_data |->
                ExternalSearchRecommendation("Naukri", naukri_url_data[i])]
        instahyre_recommendations ==
            [i \in DOMAIN instahyre_url_data |->
                ExternalSearchRecommendation("Instahyre", instahyre_url_data[i])]
    IN [naukri_searches |-> naukri_recommendations,
        instahyre_searches |-> instahyre_recommendations,
        total_recommendations |-> Len(naukri_recommendations) + Len(instahyre_recommendations),
        generation_metadata |-> [expanded_roles |-> expanded_roles, top_roles |-> top_roles,
                                 experience_bands |-> experience_bands,
                                 normalized_locations |-> locations]]

(***************************************************************************)
(* Inputs.  Jobs are NormalizedJob records as normalize_job builds them:   *)
(* the location dict is the normalized location_raw.  Job lists carry      *)
(* distinct ids, as after deduplicate_jobs.                                *)
(***************************************************************************)
SeqsUpTo(S, n) == UNION {[1..k -> S] : k \in 0..n}
InjSeqsUpTo(S, n) == {s \in SeqsUpTo(S, n) : \A i, j \in DOMAIN s : i # j => s[i] # s[j]}

NormalizedJob(id, title, location_raw, description, required_skills) ==
    LET location == normalize_location(location_raw)
    IN [id |-> id, title |-> title,
        location |-> [city |-> location.city, country |-> location.country,
                      type |-> location.location_type, raw |-> location.raw],
        description |-> description, required_skills |-> required_skills]

JobCatalogue == {
    NormalizedJob(1, <<"S","o","f","t","w","a","r","e"," ","E","n","g","i","n","e","e","r">>, <<"B","a","n","g","a","l","o","r","e",","," ","I","n","d","i","a">>,
                  <<"B","u","i","l","d","i","n","g"," ","b","a","c","k","e","n","d"," ","A","P","I","s">>, <<<<"p","y","t","h","o","n">>, <<"s","q","l">>>>),
    NormalizedJob(2, <<"B","a","c","k","e","n","d"," ","D","e","v","e","l","o","p","e","r">>, <<"b","e","n","g","a","l","u","r","u",","," ","I","N">>,
                  <<"A","c","c","o","u","n","t"," ","g","r","o","w","t","h"," ","a","n","d"," ","p","e","o","p","l","e"," ","s","t","r","a","t","e","g","y">>, <<<<"s","q","l">>, <<"p","y","t","h","o","n">>>>),
    NormalizedJob(3, <<"O","p","e","r","a","t","i","o","n","s"," ","M","a","n","a","g","e","r">>, <<"M","u","m","b","a","i",","," ","I","n","d","i","a"," ","(","H","y","b","r","i","d",")">>,
                  <<"M","a","n","a","g","i","n","g"," ","s","u","p","p","l","y"," ","c","h","a","i","n"," ","a","n","d"," ","l","o","g","i","s","t","i","c","s">>, <<<<"e","x","c","e","l">>, <<"s","i","x"," ","s","i","g","m","a">>>>),
    NormalizedJob(4, <<"S","t","r","a","t","e","g","y"," ","M","a","n","a","g","e","r">>, <<"R","e","m","o","t","e">>,
                  <<"L","e","a","d","i","n","g"," ","b","u","s","i","n","e","s","s"," ","s","t","r","a","t","e","g","y"," ","i","n","i","t","i","a","t","i","v","e","s">>, << >>),
    NormalizedJob(5, <<"S","e","n","i","o","r"," ","S","o","f","t","w","a","r","e"," ","E","n","g","i","n","e","e","r">>, <<"L","o","n","d","o","n",","," ","U","K">>,
                  <<"B","u","i","l","d","i","n","g"," ","b","a","c","k","e","n","d"," ","A","P","I","s">>,
                  <<<<"p","y","t","h","o","n">>, <<"s","q","l">>, <<"a","w","s">>, <<"d","o","c","k","e","r">>, <<"g","i","t">>>>),
    NormalizedJob(6, <<"J","u","n","i","o","r"," ","A","n","a","l","y","s","t">>, <<"D","e","l","h","i",","," ","I","n","d","i","a">>, << >>, <<<<"e","x","c","e","l">>>>) }

Profile(primary_role, seniority, skills, tools) ==
    [primary_role |-> primary_role, seniority |-> seniority, skills |-> skills, tools |-> tools]

Profiles == {
    Profile("software engineer", "mid", <<<<"P","y","t","h","o","n">>, <<"S","Q","L">>>>, <<<<"g","i","t">>>>),
    Profile("software engineer", "junior",
            <<<<"p","y","t","h","o","n">>, <<"s","q","l">>, <<"a","w","s">>, <<"d","o","c","k","e","r">>>>, <<<<"g","i","t">>, <<"r","e","a","c","t">>>>),
    Profile("operations", "mid", <<<<"e","x","c","e","l">>, <<"p","r","o","c","e","s","s"," ","i","m","p","r","o","v","e","m","e","n","t">>>>, << >>),
    Profile("hr", "principal", <<<<"E","x","c","e","l">>>>, <<<<"e","x","c","e","l">>>>) }

UserPreferences(preferred_locations, open_to_relocation, open_to_international, remote_only) ==
    [preferred_locations |-> preferred_locations, open_to_relocation |-> open_to_relocation,
     open_to_international |-> open_to_international, remote_only |-> remote_only]

PreferredLocationLists ==
    { << >>, <<<<"B","a","n","g","a","l","o","r","e">>>>, <<<<"L","o","n","d","o","n",","," ","U","K">>, <<"M","u","m","b","a","i",","," ","I","n","d","i","a">>>> }

Preferences ==
    {UserPreferences(l, r, i, ro) : l \in PreferredLocationLists,
                                    r \in BOOLEAN, i \in BOOLEAN, ro \in BOOLEAN}

(***************************************************************************)
(* match_jobs, one step per statement group of the function.               *)
(***************************************************************************)
NoCall == [fn |-> "none"]

Init ==
    /\ jobs \in InjSeqsUpTo(JobCatalogue, MaxJobs)
    /\ profile \in Profiles
    /\ preferences \in Preferences
    /\ max_results = 0
    /\ filtered_jobs = << >>
    /\ scored_jobs = << >>
    /\ idx = 0
    /\ match = None
    /\ domain_score = None
    /\ result = << >>
    /\ pc = "filter"
    /\ call = NoCall
    /\ ret = None
    /\ raw_jobs = << >>
    /\ normalized_jobs = << >>
    /\ recommendations = << >>
    /\ response = "none"
    /\ NoRequests
    /\ NoCollection

\* filtered_jobs = _apply_hard_filters(jobs, preferences)
ApplyHardFilters ==
    /\ pc = "filter"
    /\ filtered_jobs' = _apply_hard_filters(jobs, preferences)
    /\ pc' = "score"
    /\ UNCHANGED <<jobs, profile, preferences, max_results, scored_jobs, idx, match,
                   domain_score, result, call, ret, pipeline_vars, api_vars, collect_vars>>

\* One iteration of `for job in filtered_jobs`.
ScoreJob ==
    /\ pc = "score"
    /\ idx < Len(filtered_jobs)
    /\ ~_score_job_raises(filtered_jobs[idx + 1])
    /\ \E scored \in {_score_job(filtered_jobs[idx + 1], profile, preferences)} :
          /\ match' = Some(scored.match)
          /\ domain_score' = Some(scored.domain_score)
          /\ scored_jobs' = IF RLeq(MinimumThreshold, scored.match.total_score)
                            THEN Append(scored_jobs, scored.match)
                            ELSE scored_jobs
    /\ idx' = idx + 1
    /\ UNCHANGED <<jobs, profile, preferences, max_results, filtered_jobs, result, pc,
                   call, ret, pipeline_vars, api_vars, collect_vars>>

\* scored_jobs.sort(...); return scored_jobs[:max_results], for the max_results
\* the caller passed (a non-negative count; the argument is only read here).
SortAndReturn ==
    /\ pc = "score"
    /\ idx = Len(filtered_jobs)
    /\ scored_jobs' = sort_by_total_score(scored_jobs)
    /\ \E m \in 0..MaxResults :
          /\ max_results' = m
          /\ result' = SubSeq(scored_jobs', 1, IF m < Len(scored_jobs')
                                                THEN m ELSE Len(scored_jobs'))
    /\ pc' = "done"
    /\ UNCHANGED <<jobs, profile, preferences, filtered_jobs, idx, match,
                   domain_score, call, ret, pipeline_vars, api_vars, collect_vars>>

Next == ApplyHardFilters \/ ScoreJob \/ SortAndReturn

Spec == Init /\ [][Next]_vars

(***************************************************************************)
(* Direct calls of the scoring functions: `call` holds the function and    *)
(* its arguments, `ret` the returned value.                                *)
(***************************************************************************)
JobLocationStrings == {
    << >>, <<"R","e","m","o","t","e">>, <<"W","o","r","k"," ","f","r","o","m"," ","h","o","m","e",","," ","I","n","d","i","a">>, <<"D","e","l","h","i",","," ","I","n","d","i","a">>, <<"B","a","n","g","a","l","o","r","e",","," ","I","n","d","i","a">>,
    <<"B","E","N","G","A","L","U","R","U">>, <<"L","o","n","d","o","n",","," ","U","K">>, <<"P","u","n","e",","," ","M","a","h","a","r","a","s","h","t","r","a",","," ","I","n","d","i","a">>, <<"M","u","m","b","a","i",","," ","I","n","d","i","a"," ","(","H","y","b","r","i","d",")">> }

PrefStrings == {
    <<"B","a","n","g","a","l","o","r","e">>, <<"B","a","n","g","a","l","o","r","e",","," ","I","n","d","i","a">>, <<"l","o","n","d","o","n",","," ","u","k">>, <<"R","e","m","o","t","e">>, <<"M","u","m","b","a","i",","," ","I","n","d","i","a">>, <<"i","n","d","i","a">> }

SkillLists == {
    << >>, <<<<"p","y","t","h","o","n">>>>, <<<<"P","y","t","h","o","n">>, <<"S","Q","L">>>>, <<<<"P","Y","T","H","O","N">>, <<"p","y","t","h","o","n">>>>,
    <<<<"e","x","c","e","l">>, <<"s","i","x"," ","s","i","g","m","a">>>>,
    <<<<"p","y","t","h","o","n">>, <<"s","q","l">>, <<"a","w","s">>, <<"d","o","c","k","e","r">>, <<"g","i","t">>>>,
    <<<<"P","y","t","h","o","n">>, <<"s","q","l">>, <<"A","W","S">>, <<"d","o","c","k","e","r">>, <<"g","i","t">>, <<"r","e","a","c","t">>>>,
    <<<<"p","y","t","h","o","n">>, <<"s","q","l">>, <<"a","w","s">>, <<"d","o","c","k","e","r">>, <<"g","i","t">>, <<"r","e","a","c","t">>, <<"j","a","v","a">>, <<"e","x","c","e","l">>>> }

Seniorities == {"junior", "mid", "senior", "lead", "principal"}

Titles == {
    <<"S","o","f","t","w","a","r","e"," ","E","n","g","i","n","e","e","r">>, <<"S","e","n","i","o","r"," ","S","o","f","t","w","a","r","e"," ","E","n","g","i","n","e","e","r">>, <<"S","r","."," ","A","n","a","l","y","s","t">>, <<"J","u","n","i","o","r"," ","D","e","v","e","l","o","p","e","r">>,
    <<"E","N","T","R","Y"," ","L","E","V","E","L"," ","C","L","E","R","K">>, <<"A","s","s","o","c","i","a","t","e"," ","L","e","a","d">>, <<"T","e","a","m"," ","L","e","a","d">>, <<"S","t","a","f","f"," ","E","n","g","i","n","e","e","r">>,
    <<"P","r","i","n","c","i","p","a","l"," ","C","o","n","s","u","l","t","a","n","t">>, <<"S","e","n","i","o","r"," ","P","r","i","n","c","i","p","a","l">>, <<"O","p","e","r","a","t","i","o","n","s"," ","M","a","n","a","g","e","r">>, <<"I","s","r","a","e","l"," ","D","e","s","k">> }

Roles == business_roles \cup {"software engineer", "general"}

DomainTitles == {
    <<"S","t","r","a","t","e","g","y"," ","M","a","n","a","g","e","r">>, <<"M","a","n","a","g","e","m","e","n","t"," ","C","o","n","s","u","l","t","a","n","t">>, <<"O","p","e","r","a","t","i","o","n","s"," ","M","a","n","a","g","e","r">>,
    <<"S","o","f","t","w","a","r","e"," ","E","n","g","i","n","e","e","r">>, <<"H","R"," ","B","u","s","i","n","e","s","s"," ","P","a","r","t","n","e","r">> }

Descriptions == {
    << >>, <<"L","e","a","d","i","n","g"," ","b","u","s","i","n","e","s","s"," ","s","t","r","a","t","e","g","y"," ","i","n","i","t","i","a","t","i","v","e","s">>, <<"P","r","o","v","i","d","i","n","g"," ","a","d","v","i","s","o","r","y"," ","s","e","r","v","i","c","e","s">>,
    <<"M","a","n","a","g","i","n","g"," ","s","u","p","p","l","y"," ","c","h","a","i","n"," ","a","n","d"," ","l","o","g","i","s","t","i","c","s">>, <<"B","u","i","l","d","i","n","g"," ","b","a","c","k","e","n","d"," ","A","P","I","s">>,
    <<"S","a","l","e","s"," ","a","n","d"," ","m","a","r","k","e","t","i","n","g"," ","f","i","n","a","n","c","e">> }

\* Raw postings as the collectors hand them over.
RawJob(title, company, location_raw, description) ==
    [title |-> title, company |-> company, location_raw |-> location_raw,
     description |-> description]

RawPostings == {
    RawJob(<<"S","o","f","t","w","a","r","e"," ","E","n","g","i","n","e","e","r">>, <<"A","c","m","e">>, <<"B","a","n","g","a","l","o","r","e",","," ","I","n","d","i","a">>,
           <<"P","y","t","h","o","n"," ","a","n","d"," ","S","Q","L"," ","b","a","c","k","e","n","d"," ","A","P","I","s">>),
    RawJob(<<"S","O","F","T","W","A","R","E"," ","E","N","G","I","N","E","E","R">>, <<"a","c","m","e">>, <<"b","a","n","g","a","l","o","r","e",","," ","i","n","d","i","a">>,
           <<"P","y","t","h","o","n"," ","a","n","d"," ","S","Q","L"," ","b","a","c","k","e","n","d"," ","A","P","I","s">>),
    RawJob(Absent, <<"A","c","m","e">>, <<"D","e","l","h","i",","," ","I","n","d","i","a">>,
           <<"E","x","c","e","l"," ","r","e","p","o","r","t","i","n","g">>),
    RawJob(<<"U","n","k","n","o","w","n">>, <<"A","c","m","e">>, <<"D","e","l","h","i",","," ","I","n","d","i","a">>,
           <<"E","x","c","e","l"," ","r","e","p","o","r","t","i","n","g">>),
    RawJob(<<"A","n","a","l","y","s","t">>, <<"I","n","i","t","e","c","h">>, <<"R","e","m","o","t","e">>,
           PyNone),
    RawJob(PyNone, <<"I","n","i","t","e","c","h">>, <<"P","u","n","e",","," ","I","n","d","i","a">>,
           <<"P","y","t","h","o","n">>),
    RawJob(<<"O","p","e","r","a","t","i","o","n","s"," ","M","a","n","a","g","e","r">>, Absent, Absent,
           Absent),
    RawJob(<<"D","a","t","a"," ","A","n","a","l","y","s","t">>, PyNone, PyNone,
           <<"S","Q","L"," ","a","n","d"," ","E","x","c","e","l"," ","r","e","p","o","r","t","i","n","g",","," ","r","e","m","o","t","e"," ","t","e","a","m">>) }

CoreProfiles == {
    ProfileSchema("software engineer", "mid", <<<<"P","y","t","h","o","n">>, <<"S","Q","L">>>>, <<<<"g","i","t">>>>,
                  <<<<"b","a","c","k","e","n","d">>>>),
    ProfileSchema("operations", "senior", <<<<"e","x","c","e","l">>>>, << >>, << >>) }

CorePreferences == {
    UserPreferences(<< >>, FALSE, FALSE, FALSE),
    UserPreferences(<<<<"B","a","n","g","a","l","o","r","e",","," ","I","n","d","i","a">>>>, TRUE, FALSE, FALSE),
    UserPreferences(<<<<"L","o","n","d","o","n",","," ","U","K">>>>, FALSE, FALSE, TRUE) }

\* normalize_job on each posting, evaluated once.
normalize_job_of == [raw_job \in RawPostings |-> normalize_job(raw_job)]

\* Job lists as normalization leaves them: duplicates included.
NormalizedPostings ==
    {normalize_job_of[r][1] : r \in {p \in RawPostings : normalize_job_of[p] # None}}

DeduplicateCalls ==
    {[fn |-> "deduplicate_jobs", jobs |-> l] : l \in SeqsUpTo(NormalizedPostings, MaxDuplicates)}

LocationStrings ==
    JobLocationStrings \cup PrefStrings \cup
    { <<" "," ">>, <<"N","o","t"," ","s","p","e","c","i","f","i","e","d">>, <<"F","l","e","x","i","b","l","e">>, <<"H","y","b","r","i","d"," ","-"," ","G","u","r","u","g","r","a","m"," ",","," ","i","n">>, <<"R","e","m","o","t","e","-","f","r","i","e","n","d","l","y">>,
      <<"S","a","n"," ","F","r","a","n","c","i","s","c","o",","," ","C","A",","," ","U","S","A">>, <<"n","e","w"," ","d","e","l","h","i",",","K","A","R","N","A","T","A","K","A"," ",","," ","u","n","i","t","e","d"," ","k","i","n","g","d","o","m">>,
      <<"P","u","n","e",","," ">>, <<"W","F","H">>, <<"A","b","u"," ","D","h","a","b","i",","," ","D","u","b","a","i">>, <<"P","o","r","t","o",","," ","N","o","r","t","h","e","r","n"," ","p","o","r","t","u","g","a","l">> }

NormalizeLocationCalls ==
    {[fn |-> "normalize_location", location_str |-> s] : s \in LocationStrings}

ExplanationJobs == {j \in JobCatalogue : j.id \in {1, 3, 4}}

ExplanationProfiles == {
    ProfileSchema("software engineer", "mid", <<<<"P","y","t","h","o","n">>, <<"S","Q","L">>>>, <<<<"g","i","t">>>>,
                  <<<<"b","a","c","k","e","n","d">>>>),
    ProfileSchema("software engineer", "junior", <<<<"j","a","v","a">>>>, <<<<"S","Q","L">>>>,
                  <<<<"b","a","c","k","e","n","d">>, <<"c","l","o","u","d">>, <<"d","a","t","a">>>>),
    ProfileSchema("operations", "mid", <<<<"E","x","c","e","l">>>>, << >>, << >>),
    ProfileSchema("hr", "principal", << >>, << >>, <<<<"s","t","r","a","t","e","g","y">>>>) }

ExplanationCalls ==
    {[fn |-> "generate_explanation",
      match |-> JobMatch(j, t, l, s, c), profile |-> p] :
        j \in ExplanationJobs, p \in ExplanationProfiles,
        t \in {Zero, One},
        l \in {Rat(1, 10), Rat(7, 10), One},
        s \in {Zero, Rat(2, 5), Rat(3, 5)},
        c \in {Rat(1, 5), Rat(3, 5), Rat(9, 10)}}

SeniorityTexts ==
    Titles \cup { <<"S","o","f","t","w","a","r","e"," ","E","n","g","i","n","e","e","r"," ","w","i","t","h"," ","6"," ","y","e","a","r","s"," ","o","f"," ","e","x","p","e","r","i","e","n","c","e">>, <<"E","n","g","i","n","e","e","r"," ","I","I">>,
                  <<"E","n","g","i","n","e","e","r","i","n","g"," ","M","a","n","a","g","e","r",","," ","p","l","a","t","f","o","r","m">>, <<"D","i","s","t","i","n","g","u","i","s","h","e","d"," ","A","r","c","h","i","t","e","c","t">>,
                  <<"T","e","c","h"," ","l","e","a","d"," ","a","n","d"," ","j","u","n","i","o","r"," ","m","e","n","t","o","r">>, << >> }

SeniorityCalls ==
    {[fn |-> "extract_seniority", text |-> t, experience_years |-> y] :
        t \in SeniorityTexts, y \in 0..MaxYears}

DatesText ==
    <<"\n">> \o <<" "," "," "," ","S","o","f","t","w","a","r","e"," ","E","n","g","i","n","e","e","r",","," ","T","e","c","h","C","o","r","p"," ","(","2","0","2","0"," ","-"," ","2","0","2","3",")">> \o <<"\n">> \o
    <<" "," "," "," ","D","e","v","e","l","o","p","e","r",","," ","S","t","a","r","t","u","p","X","Y","Z"," ","(","2","0","1","8"," ","-"," ","2","0","2","0",")">> \o <<"\n">> \o <<" "," "," "," ">>

ExperienceTexts == {
    <<"5","+"," ","y","e","a","r","s"," ","o","f"," ","e","x","p","e","r","i","e","n","c","e"," ","i","n"," ","s","o","f","t","w","a","r","e"," ","d","e","v","e","l","o","p","m","e","n","t">>, DatesText,
    <<"3"," ","y","r","s"," ","i","n"," ","s","a","l","e","s">>, <<"2"," ","y","e","a","r","s"," ","e","x","p","e","r","i","e","n","c","e"," ","a","t"," ","A","c","m","e",","," ","t","h","e","n"," ","1","2"," ","Y","e","a","r","s"," ","o","f"," "," ","E","x","p","e","r","i","e","n","c","e">>,
    <<"7","y","e","a","r","s">> \o <<"\n">> \o <<"o","f">> \o <<"\t">> \o <<"e","x","p","e","r","i","e","n","c","e">>, <<"s","i","n","c","e"," ","1","9","9","9"," ","a","n","d"," ","2","0","2","1">>,
    <<"4"," ","y","e","a","r"," ","o","f"," ","e","x","p","e","r","i","e","n","c","e","s">>, <<"6","+"," ","y","e","a","r","s","o","f"," ","e","x","p","e","r","i","e","n","c","e">>, <<"1","0"," ","+","y","e","a","r","s"," ","e","x","p","e","r","i","e","n","c","e">>, << >> }

ExperienceCalls ==
    {[fn |-> "extract_experience_years", text |-> t] : t \in ExperienceTexts}

RoleTexts == {
    <<"S","t","r","a","t","e","g","y"," ","C","o","n","s","u","l","t","a","n","t"," ","a","t"," ","M","c","K","i","n","s","e","y">>, <<"O","p","e","r","a","t","i","o","n","s"," ","M","a","n","a","g","e","r"," ","a","t"," ","S","w","i","g","g","y">>,
    <<"M","a","r","k","e","t","i","n","g"," ","M","a","n","a","g","e","r"," ","a","t"," ","Z","o","m","a","t","o">>, <<"F","i","n","a","n","c","i","a","l"," ","A","n","a","l","y","s","t"," ","a","t"," ","G","o","l","d","m","a","n"," ","S","a","c","h","s">>,
    <<"H","R"," ","M","a","n","a","g","e","r"," ","a","t"," ","G","o","o","g","l","e">>, <<"S","a","l","e","s"," ","a","n","d"," ","a","c","c","o","u","n","t"," ","g","r","o","w","t","h">>, <<"S","o","f","t","w","a","r","e"," ","D","e","v","e","l","o","p","e","r">>,
    <<"F","i","n","a","n","c","e"," ","a","n","d"," ","a","c","c","o","u","n","t","i","n","g">>, <<"G","a","r","d","e","n","e","r">>, << >> }

RoleFamilyCalls ==
    UNION {{[fn |-> "extract_role_family", text |-> t, job_titles |-> l] :
               l \in {<< >>, <<t>>, <<<<"S","t","r","a","t","e","g","y"," ","L","e","a","d">>, <<"A","d","v","i","s","o","r","y"," ","P","a","r","t","n","e","r">>>>}} :
           t \in RoleTexts}

LocationCalls ==
    {[fn |-> "score_location_match", job_location |-> normalize_location(s),
      preferred_locations |-> l, open_to_relocation |-> r,
      open_to_international |-> i, remote_only |-> ro] :
        s \in JobLocationStrings, l \in SeqsUpTo(PrefStrings, MaxPrefs),
        r \in BOOLEAN, i \in BOOLEAN, ro \in BOOLEAN}

SkillCalls ==
    {[fn |-> "_calculate_skill_similarity", user_skills |-> u, job_skills |-> j] :
        u \in SkillLists, j \in SkillLists}

CareerCalls ==
    {[fn |-> "_calculate_career_fit", user_seniority |-> u, user_role |-> "general",
      job_title |-> t] : u \in Seniorities, t \in Titles}

DomainCalls ==
    {[fn |-> "_calculate_domain_fit", user_role |-> r, job_title |-> t,
      job_description |-> d] : r \in Roles, t \in DomainTitles, d \in Descriptions}

RECURSIVE Repeat(_, _)
Repeat(s, n) == IF n = 0 THEN << >> ELSE LET r == Repeat(s, n - 1) IN s \o r

\* The text of test_validate_resume_content_missing_indicators.
MissingIndicatorsText ==
    Repeat(<<"T","h","i","s"," ","i","s"," ","a"," ","l","o","n","g"," ","t","e","x","t"," ","b","u","t"," ","i","t"," ","d","o","e","s","n","'","t"," ","c","o","n","t","a","i","n"," ","a","n","y"," ","r","e","s","u","m","e","-","r","e","l","a","t","e","d"," ","k","e","y","w","o","r","d","s","."," ">>, 10)

ResumeTexts ==
    { MissingIndicatorsText, << >>, <<"J","o","h","n"," ","D","o","e">>, <<" "," "," ","J","o","h","n"," ","D","o","e"," "," ">> \o <<"\n">>,
      <<"E","x","p","e","r","i","e","n","c","e",":"," ","5"," ","y","e","a","r","s">>, <<"0","1","2","3","4","5","6","7","8","9">>, <<"\n", "\n", " ", "\t", " ", "\n">> \o <<" "," "," "," "," "," ">>,
      <<"M","y"," ","E","D","U","C","A","T","I","O","N">>, <<"j","o","b">>, <<"a"," ","j","o","b"," ","b"," ","c"," ","d">>, <<"S","k","i","l","l","s",":"," ","P","y","t","h","o","n",","," ","S","Q","L">>,
      <<"\n">> \o <<" "," ","S","u","m","m","a","r","y">> \o <<"\n">>, DatesText }

ValidateCalls == {[fn |-> "validate_resume_content", text |-> t] : t \in ResumeTexts}

SearchRoleLists == { << >>, << <<"O","p","e","r","a","t","i","o","n","s"," ","M","a","n","a","g","e","r">> >>, << <<"D","a","t","a"," ","E","n","g","i","n","e","e","r">> >>,
                     << <<"O","p","e","r","a","t","i","o","n","s"," ","M","a","n","a","g","e","r">>, <<"B","u","s","i","n","e","s","s"," ","O","p","e","r","a","t","i","o","n","s"," ","M","a","n","a","g","e","r">> >>,
                     << <<"F","i","n","a","n","c","e"," ","A","n","a","l","y","s","t">>, <<"F","i","n","a","n","c","i","a","l"," ","A","n","a","l","y","s","t">> >> }
SearchRoleFamilies == { <<"O","p","e","r","a","t","i","o","n","s">>, <<"E","n","g","i","n","e","e","r","i","n","g">> }
SearchYears == {0, 2, MaxYears}
SearchLocationStrings == { <<"M","u","m","b","a","i">>, <<"b","e","n","g","a","l","u","r","u">>, <<"I","n","d","i","a">>, <<"R","e","m","o","t","e">>, <<"P","A","N"," ","I","n","d","i","a">>, <<"P","a","r","i","s">> }

SearchCalls ==
    {[fn |-> "generate_external_searches",
      request |-> SearchGenerationRequest(r, f, y, l, x)] :
        r \in SearchRoleLists, f \in SearchRoleFamilies, y \in SearchYears,
        l \in SeqsUpTo(SearchLocationStrings, MaxPrefs), x \in {"strict", "flexible"}}

InitUnit ==
    /\ \/ call \in LocationCalls
       \/ call \in SkillCalls
       \/ call \in CareerCalls
       \/ call \in DomainCalls
       \/ call \in DeduplicateCalls
       \/ call \in NormalizeLocationCalls
       \/ call \in ExplanationCalls
       \/ call \in SeniorityCalls
       \/ call \in ExperienceCalls
       \/ call \in RoleFamilyCalls
       \/ call \in ValidateCalls
       \/ call \in SearchCalls
    /\ ret = None
    /\ jobs = << >>
    /\ profile = Profile("general", "mid", << >>, << >>)
    /\ preferences = UserPreferences(<< >>, FALSE, FALSE, FALSE)
    /\ max_results = 0
    /\ filtered_jobs = << >>
    /\ scored_jobs = << >>
    /\ idx = 0
    /\ match = None
    /\ domain_score = None
    /\ result = << >>
    /\ pc = "unit"
    /\ raw_jobs = << >>
    /\ normalized_jobs = << >>
    /\ recommendations = << >>
    /\ response = "none"
    /\ NoRequests
    /\ NoCollection

UnitFrame == UNCHANGED <<jobs, profile, preferences, max_results, filtered_jobs,
                         scored_jobs, idx, match, domain_score, result, pc, call,
                         pipeline_vars, api_vars, collect_vars>>

ScoreLocationMatch ==
    /\ call.fn = "score_location_match"
    /\ ret = None
    /\ \E r \in {score_location_match(call.job_location, call.preferred_locations,
                                      call.open_to_relocation, call.open_to_international,
                                      call.remote_only)} : ret' = Some(r)
    /\ UnitFrame

CalculateSkillSimilarity ==
    /\ call.fn = "_calculate_skill_similarity"
    /\ ret = None
    /\ \E r \in {_calculate_skill_similarity(call.user_skills, call.job_skills)} :
          ret' = Some(r)
    /\ UnitFrame

CalculateCareerFit ==
    /\ call.fn = "_calculate_career_fit"
    /\ ret = None
    /\ \E r \in {_calculate_career_fit(call.user_seniority, call.user_role, call.job_title)} :
          ret' = Some(r)
    /\ UnitFrame

CalculateDomainFit ==
    /\ call.fn = "_calculate_domain_fit"
    /\ ret = None
    /\ \E r \in {_calculate_domain_fit(call.user_role, call.job_title, call.job_description)} :
          ret' = Some(r)
    /\ UnitFrame

DeduplicateJobs ==
    /\ call.fn = "deduplicate_jobs"
    /\ ret = None
    /\ \E r \in {deduplicate_jobs(call.jobs)} : ret' = Some(r)
    /\ UnitFrame

NormalizeLocation ==
    /\ call.fn = "normalize_location"
    /\ ret = None
    /\ \E r \in {normalize_location(call.location_str)} : ret' = Some(r)
    /\ UnitFrame

\* ret holds what generate_explanation returns: None or the record.
GenerateExplanation ==
    /\ call.fn = "generate_explanation"
    /\ ret = None
    /\ \E r \in {generate_explanation(call.match, call.profile)} : ret' = Some(r)
    /\ UnitFrame

ExtractSeniority ==
    /\ call.fn = "extract_seniority"
    /\ ret = None
    /\ \E r \in {extract_seniority(call.text, call.experience_years)} : ret' = Some(r)
    /\ UnitFrame

ExtractExperienceYears ==
    /\ call.fn = "extract_experience_years"
    /\ ret = None
    /\ \E r \in {extract_experience_years(call.text)} : ret' = Some(r)
    /\ UnitFrame

ExtractRoleFamily ==
    /\ call.fn = "extract_role_family"
    /\ ret = None
    /\ \E r \in {extract_role_family(call.text, call.job_titles)} : ret' = Some(r)
    /\ UnitFrame

ValidateResumeContent ==
    /\ call.fn = "validate_resume_content"
    /\ ret = None
    /\ \E r \in {validate_resume_content(call.text)} : ret' = Some(r)
    /\ UnitFrame

GenerateExternalSearches ==
    /\ call.fn = "generate_external_searches"
    /\ ret = None
    /\ \E r \in {generate_external_searches(call.request)} : ret' = Some(r)
    /\ UnitFrame

NextUnit == ScoreLocationMatch \/ CalculateSkillSimilarity \/ CalculateCareerFit
            \/ CalculateDomainFit \/ DeduplicateJobs \/ NormalizeLocation
            \/ GenerateExplanation \/ ExtractSeniority \/ ExtractExperienceYears
            \/ ExtractRoleFamily \/ ValidateResumeContent
            \/ GenerateExternalSearches

SpecUnit == InitUnit /\ [][NextUnit]_vars

(***************************************************************************)
(* Steps 2 to 5 of get_recommendations (orchestration/main.py): the raw    *)
(* postings collected in step 1 are normalized, deduplicated, matched and  *)
(* explained.  `jobs` holds unique_jobs and `result` the matches; match_jobs *)
(* runs by the steps ApplyHardFilters and ScoreJob above.  A               *)
(* recommendation keeps the match its id, title, company, location and     *)
(* match_score are copied from.                                            *)
(***************************************************************************)
MaxResultsRequested == 20

InitCore ==
    /\ raw_jobs \in SeqsUpTo(RawPostings, MaxJobs)
    /\ profile \in CoreProfiles
    /\ preferences \in CorePreferences
    /\ normalized_jobs = << >>
    /\ recommendations = << >>
    /\ response = "none"
    /\ NoRequests
    /\ NoCollection
    /\ jobs = << >>
    /\ max_results = 0
    /\ filtered_jobs = << >>
    /\ scored_jobs = << >>
    /\ idx = 0
    /\ match = None
    /\ domain_score = None
    /\ result = << >>
    /\ pc = "collected"
    /\ call = NoCall
    /\ ret = None

CoreFrame == UNCHANGED <<raw_jobs, profile, preferences, call, ret, api_vars, collect_vars>>

\* if not raw_jobs: return {'success': False, 'error': 'No jobs found', ...}
NoJobsFound ==
    /\ pc = "collected"
    /\ raw_jobs = << >>
    /\ response' = "No jobs found"
    /\ pc' = "done"
    /\ UNCHANGED <<normalized_jobs, recommendations, jobs, max_results, idx, result,
                   filtered_jobs, scored_jobs, match, domain_score>>
    /\ CoreFrame

\* One iteration of `for raw_job in raw_jobs`.
NormalizeJob ==
    /\ pc = "collected"
    /\ idx < Len(raw_jobs)
    /\ \E normalized \in {normalize_job_of[raw_jobs[idx + 1]]} :
          normalized_jobs' = IF normalized # None
                             THEN Append(normalized_jobs, normalized[1])
                             ELSE normalized_jobs
    /\ idx' = idx + 1
    /\ UNCHANGED <<recommendations, response, jobs, max_results, result, pc,
                   filtered_jobs, scored_jobs, match, domain_score>>
    /\ CoreFrame

\* unique_jobs = deduplicate_jobs(normalized_jobs), and the early return.
DeduplicateNormalized ==
    /\ pc = "collected"
    /\ raw_jobs # << >>
    /\ idx = Len(raw_jobs)
    /\ \E unique_jobs \in {deduplicate_jobs(normalized_jobs)} :
          /\ jobs' = unique_jobs
          /\ IF unique_jobs = << >>
             THEN response' = "No valid jobs after processing" /\ pc' = "done"
             ELSE response' = response /\ pc' = "filter"
    /\ idx' = 0
    /\ UNCHANGED <<normalized_jobs, recommendations, max_results, result,
                   filtered_jobs, scored_jobs, match, domain_score>>
    /\ CoreFrame

\* _score_job raises inside match_jobs; `except Exception` of
\* get_recommendations answers HTTP 500.
ScoreJobRaises ==
    /\ pc = "score"
    /\ idx < Len(filtered_jobs)
    /\ _score_job_raises(filtered_jobs[idx + 1])
    /\ response' = "HTTP 500"
    /\ pc' = "done"
    /\ UNCHANGED <<normalized_jobs, recommendations, jobs, max_results, idx, result,
                   filtered_jobs, scored_jobs, match, domain_score>>
    /\ CoreFrame

\* The end of match_jobs(unique_jobs, profile, preferences, max_results=20):
\* sort and truncate; then the early return of get_recommendations.
ReturnMatches ==
    /\ pc = "score"
    /\ idx = Len(filtered_jobs)
    /\ \E ranked \in {sort_by_total_score(scored_jobs)} :
          /\ scored_jobs' = ranked
          /\ result' = Prefix(ranked, MaxResultsRequested)
          /\ IF Prefix(ranked, MaxResultsRequested) = << >>
             THEN response' = "No jobs found matching your profile" /\ pc' = "done"
             ELSE response' = response /\ pc' = "explain"
    /\ max_results' = MaxResultsRequested
    /\ idx' = 0
    /\ UNCHANGED <<normalized_jobs, recommendations, jobs, filtered_jobs, match,
                   domain_score>>
    /\ CoreFrame

\* One iteration of `for match in matches`.
ExplainMatch ==
    /\ pc = "explain"
    /\ idx < Len(result)
    /\ \E explanation \in {generate_explanation(result[idx + 1], profile)} :
          recommendations' =
              IF explanation # None
              THEN Append(recommendations,
                          [match |-> result[idx + 1], explanation |-> explanation[1]])
              ELSE recommendations
    /\ idx' = idx + 1
    /\ UNCHANGED <<normalized_jobs, response, jobs, max_results, result, pc,
                   filtered_jobs, scored_jobs, match, domain_score>>
    /\ CoreFrame

\* return {'success': True, ..., 'recommendations': recommendations}
ReturnRecommendations ==
    /\ pc = "explain"
    /\ idx = Len(result)
    /\ response' = "success"
    /\ pc' = "done"
    /\ UNCHANGED <<normalized_jobs, recommendations, jobs, max_results, idx, result,
                   filtered_jobs, scored_jobs, match, domain_score>>
    /\ CoreFrame

NextCore == NoJobsFound \/ NormalizeJob \/ DeduplicateNormalized \/ ApplyHardFilters
            \/ ScoreJob \/ ScoreJobRaises \/ ReturnMatches \/ ExplainMatch
            \/ ReturnRecommendations

SpecCore == InitCore /\ [][NextCore]_vars

(***************************************************************************)
(* JobOrchestrator.collect_all_jobs (backend/job_sources/orchestrator.py). *)
(* asyncio.gather schedules the three collector coroutines as tasks at     *)
(* once; each task ends by returning its job list or by raising, in any    *)
(* order; gather resumes collect_all_jobs when the last one has ended.     *)
(* What a collector fetches from its source is an input.                   *)
(***************************************************************************)
\* The collectors in the order of the `tasks` list.
Sources == <<"greenhouse", "lever", "remoteok">>

SourcePostings == <<
    { RawJob(<<"S","o","f","t","w","a","r","e"," ","E","n","g","i","n","e","e","r">>, <<"A","c","m","e">>, <<"B","a","n","g","a","l","o","r","e",","," ","I","n","d","i","a">>, <<"P","y","t","h","o","n"," ","a","n","d"," ","S","Q","L"," ","b","a","c","k","e","n","d"," ","A","P","I","s">>),
      RawJob(<<"U","n","k","n","o","w","n">>, <<"A","c","m","e">>, <<"D","e","l","h","i",","," ","I","n","d","i","a">>, <<"E","x","c","e","l"," ","r","e","p","o","r","t","i","n","g">>) },
    { RawJob(<<"S","o","f","t","w","a","r","e"," ","E","n","g","i","n","e","e","r">>, <<"A","c","m","e">>, <<"B","a","n","g","a","l","o","r","e",","," ","I","n","d","i","a">>, <<"P","y","t","h","o","n"," ","a","n","d"," ","S","Q","L"," ","b","a","c","k","e","n","d"," ","A","P","I","s">>),
      RawJob(<<"O","p","e","r","a","t","i","o","n","s"," ","M","a","n","a","g","e","r">>, Absent, Absent, Absent) },
    { RawJob(<<"A","n","a","l","y","s","t">>, <<"I","n","i","t","e","c","h">>, <<"R","e","m","o","t","e">>, PyNone),
      RawJob(<<"D","a","t","a"," ","A","n","a","l","y","s","t">>, PyNone, PyNone, <<"S","Q","L"," ","a","n","d"," ","E","x","c","e","l"," ","r","e","p","o","r","t","i","n","g",","," ","r","e","m","o","t","e"," ","t","e","a","m">>) } >>

Task(status, task_result) == [status |-> status, result |-> task_result]

\* The results of asyncio.gather for tasks that ended in the given order.
gather_as_completed(task_list, completion_order) ==
    [k \in DOMAIN completion_order |-> task_list[completion_order[k]]]

\* results = await asyncio.gather(*tasks, return_exceptions=True)
gather(task_list, completion_order) == task_list

\* The loop `for result in results` of collect_all_jobs.
RECURSIVE combine(_)
combine(results) ==
    IF results = << >> THEN << >>
    ELSE LET n == Len(results)
             front == SubSeq(results, 1, n - 1)
             collected == combine(front)
         IN IF results[n].status = "raised" THEN collected
            ELSE collected \o results[n].result

InitCollect ==
    /\ pc = "collect_all_jobs"
    /\ call = NoCall
    /\ ret = None
    /\ jobs = << >>
    /\ profile = Profile("general", "mid", << >>, << >>)
    /\ preferences = UserPreferences(<< >>, FALSE, FALSE, FALSE)
    /\ max_results = 0
    /\ filtered_jobs = << >>
    /\ scored_jobs = << >>
    /\ idx = 0
    /\ match = None
    /\ domain_score = None
    /\ result = << >>
    /\ raw_jobs = << >>
    /\ normalized_jobs = << >>
    /\ recommendations = << >>
    /\ response = "none"
    /\ NoRequests
    /\ NoCollection

CollectFrame == UNCHANGED <<jobs, profile, preferences, max_results, filtered_jobs,
                            scored_jobs, idx, match, domain_score, result, call, ret,
                            pipeline_vars, api_vars>>

\* tasks = [...]; asyncio.gather(*tasks, return_exceptions=True) up to its await.
StartCollectors ==
    /\ pc = "collect_all_jobs"
    /\ tasks' = [i \in DOMAIN Sources |-> Task("running", << >>)]
    /\ pc' = "gather"
    /\ UNCHANGED <<finished, all_jobs, saved_raw_jobs>>
    /\ CollectFrame

\* _collect_from_source of one collector returns its jobs.
CollectorReturns ==
    /\ pc = "gather"
    /\ \E i \in DOMAIN tasks :
          /\ tasks[i].status = "running"
          /\ \E collected \in SeqsUpTo(SourcePostings[i], MaxCollected) :
                tasks' = [tasks EXCEPT ![i] = Task("returned", collected)]
          /\ finished' = Append(finished, i)
    /\ UNCHANGED <<pc, all_jobs, saved_raw_jobs>>
    /\ CollectFrame

\* _collect_from_source of one collector raises.
CollectorRaises ==
    /\ pc = "gather"
    /\ \E i \in DOMAIN tasks :
          /\ tasks[i].status = "running"
          /\ tasks' = [tasks EXCEPT ![i] = Task("raised", << >>)]
          /\ finished' = Append(finished, i)
    /\ UNCHANGED <<pc, all_jobs, saved_raw_jobs>>
    /\ CollectFrame

\* gather resumes collect_all_jobs: combine, _save_raw_jobs, return all_jobs.
GatherReturns ==
    /\ pc = "gather"
    /\ \A i \in DOMAIN tasks : tasks[i].status # "running"
    /\ \E collected \in {combine(gather(tasks, finished))} :
          /\ all_jobs' = Some(collected)
          /\ saved_raw_jobs' = Some(collected)
    /\ pc' = "done"
    /\ UNCHANGED <<tasks, finished>>
    /\ CollectFrame

NextCollect == StartCollectors \/ CollectorReturns \/ CollectorRaises \/ GatherReturns

SpecCollect == InitCollect /\ [][NextCollect]_vars

(***************************************************************************)
(* The HTTP handlers of orchestration/main.py and the in-memory session    *)
(* store.  The handlers are coroutines on one event loop: a handler runs   *)
(* without interruption from one await to the next.  upload_resume awaits  *)
(* only file.read(), before it touches the store; set_preferences awaits   *)
(* nothing; get_recommendations awaits collect_all_jobs once, after it has *)
(* read the session, and other requests are served while it is suspended.  *)
(* The text parse_resume finds in a file, the profile extract_profile      *)
(* builds from it and the jobs collect_all_jobs returns are inputs.         *)
(***************************************************************************)
EndsWith(s, suffix) ==
    Len(s) >= Len(suffix) /\ SubSeq(s, Len(s) - Len(suffix) + 1, Len(s)) = suffix

SessionIds == 1..MaxSessions

NoResponse == [handler |-> "none", status |-> 0, detail |-> "none"]
HTTPResponse(handler, status, detail) ==
    [handler |-> handler, status |-> status, detail |-> detail]

\* UserPreferences(career_goals=..., preferred_locations=..., ...)
UserPreferencesSchema(career_goals, locations, relocation, international, remote_only) ==
    [career_goals |-> career_goals, preferred_locations |-> locations,
     open_to_relocation |-> relocation,
     open_to_international |-> international, remote_only |-> remote_only]

\* UserPreferences(): every field at its default.
DefaultUserPreferences == UserPreferencesSchema(None, << >>, FALSE, FALSE, FALSE)

PreferencesRequest(session_id, career_goals, locations, relocation, international, remote_only) ==
    [session_id |-> session_id, career_goals |-> career_goals,
     preferred_locations |-> locations,
     open_to_relocation |-> relocation,
     open_to_international |-> international, remote_only |-> remote_only]

\* An uploaded file: its name, what parse_resume does with it (None: it raises
\* ResumeParsingError) and what extract_profile / ProfileSchema(**profile_dict)
\* do with the text (None: one of them raises).
UploadFile(filename, parsed, extracted) ==
    [filename |-> filename, parsed |-> parsed, extracted |-> extracted]

\* The value upload_resume stores under sessions[session_id].
Session(session_profile, created_at, file_path) ==
    [profile |-> session_profile, preferences |-> None, created_at |-> created_at,
     file_path |-> file_path]

Reply(status, detail, store) == [status |-> status, detail |-> detail, sessions |-> store]

\* The exception that leaves the body of the inner try of upload_resume.
upload_raises(file) ==
    IF file.parsed = None THEN "ResumeParsingError"
    ELSE IF ~validate_resume_content(file.parsed[1]) THEN "HTTPException"
    ELSE IF file.extracted = None THEN "Exception"
    ELSE "none"

UploadProfile(k) ==
    IF k = 1
    THEN ProfileSchema("software engineer", "mid", <<<<"P","y","t","h","o","n">>, <<"S","Q","L">>>>, <<<<"g","i","t">>>>,
                       <<<<"b","a","c","k","e","n","d">>>>)
    ELSE ProfileSchema("operations", "senior", <<<<"e","x","c","e","l">>>>, << >>, << >>)

UploadFiles == {
    UploadFile(<<"c","v",".","t","x","t">>, Some(<<"E","x","p","e","r","i","e","n","c","e",":"," ","5"," ","y","e","a","r","s">>), Some(UploadProfile(1))),
    UploadFile(<<"C","V",".","P","D","F">>, Some(<<"E","x","p","e","r","i","e","n","c","e",":"," ","5"," ","y","e","a","r","s">>), Some(UploadProfile(1))),
    UploadFile(<<"c","v",".","p","d","f">>, None, None),
    UploadFile(<<"c","v",".","d","o","c","x">>, None, None),
    UploadFile(<<"c","v",".","p","d","f">>, Some(<<"J","o","h","n"," ","D","o","e">>), Some(UploadProfile(1))),
    UploadFile(<<"c","v",".","d","o","c","x">>, Some(<<"J","a","n","e"," ","R","o","e">>), None),
    UploadFile(<<"c","v",".","p","d","f">>, Some(<<"E","x","p","e","r","i","e","n","c","e",":"," ","5"," ","y","e","a","r","s">>), None),
    UploadFile(<<"c","v",".","p","d","f">>, Some(<<"E","x","p","e","r","i","e","n","c","e",":"," ","5"," ","y","e","a","r","s">>), Some(UploadProfile(1))),
    UploadFile(<<"c","v",".","d","o","c","x">>, Some(<<"0","1","2","3","4","5","6","7","8","9">>), Some(UploadProfile(2))) }

\* upload_raises on each file, evaluated once.
upload_raises_of == [file \in UploadFiles |-> upload_raises(file)]

upload_resume_stores_first(file, session_id, created_at, store) ==
    IF ~(EndsWith(file.filename, <<".","p","d","f">>) \/ EndsWith(file.filename, <<".","d","o","c","x">>))
    THEN Reply(400, "Unsupported file format. Only PDF and DOCX are supported.", store)
    ELSE LET raised == upload_raises_of[file]
             stored == (session_id :> Session(IF file.extracted = None THEN None
                                              ELSE file.extracted[1], created_at,
                                              <<session_id, file.filename>>)) @@ store
         IN IF raised = "ResumeParsingError"
            THEN Reply(422, "ResumeParsingError", stored)
            ELSE IF raised \in {"HTTPException", "Exception"}
            THEN Reply(500, "Failed to extract profile from resume", stored)
            ELSE Reply(200, "success", stored)

\* upload_resume: HTTPException is a subclass of Exception, so the 422 raised
\* for rejected content inside the inner try is caught by its
\* `except Exception` clause and replaced by the 500.
upload_resume(file, session_id, created_at, store) ==
    IF ~(EndsWith(file.filename, <<".","p","d","f">>) \/ EndsWith(file.filename, <<".","d","o","c","x">>))
    THEN Reply(400, "Unsupported file format. Only PDF and DOCX are supported.", store)
    ELSE LET raised == upload_raises_of[file]
         IN IF raised = "ResumeParsingError"
            THEN Reply(422, "ResumeParsingError", store)
            ELSE IF raised \in {"HTTPException", "Exception"}
            THEN Reply(500, "Failed to extract profile from resume", store)
            ELSE Reply(200, "success",
                       (session_id :> Session(file.extracted[1], created_at,
                                              <<session_id, file.filename>>)) @@ store)

set_preferences_keeping_goals(request, store) ==
    IF request.session_id \notin DOMAIN store
    THEN Reply(404, "Session not found", store)
    ELSE LET old == store[request.session_id].preferences
             goals == IF request.career_goals = None /\ old # None
                      THEN old[1].career_goals ELSE request.career_goals
         IN Reply(200, "Preferences saved",
                  [store EXCEPT ![request.session_id].preferences =
                       Some(UserPreferencesSchema(goals,
                                                  request.preferred_locations,
                                                  request.open_to_relocation,
                                                  request.open_to_international,
                                                  request.remote_only))])

set_preferences(request, store) ==
    IF request.session_id \notin DOMAIN store
    THEN Reply(404, "Session not found", store)
    ELSE Reply(200, "Preferences saved",
               [store EXCEPT ![request.session_id].preferences =
                    Some(UserPreferencesSchema(request.career_goals,
                                               request.preferred_locations,
                                               request.open_to_relocation,
                                               request.open_to_international,
                                               request.remote_only))])

\* The locals of get_recommendations when it reaches its await.
Suspended(session_id, session) ==
    [session_id |-> session_id, profile |-> session.profile,
     preferences |-> IF session.preferences = None THEN DefaultUserPreferences
                     ELSE session.preferences[1]]

matching_inputs_reread(suspended, store) ==
    Suspended(suspended.session_id, store[suspended.session_id])

\* What get_recommendations passes to match_jobs and generate_explanation
\* after the await: its own locals.
matching_inputs(suspended, store) == suspended

RemoveAt(s, k) == SubSeq(s, 1, k - 1) \o SubSeq(s, k + 1, Len(s))

\* Inputs.
PreferencesRequests ==
    {PreferencesRequest(session_id, request[1], request[2], request[3], FALSE, request[4]) :
        session_id \in SessionIds,
        request \in {<<None, << >>, FALSE, TRUE>>,
                     <<Some(<<"L","e","a","d"," ","a"," ","t","e","a","m">>), <<<<"B","a","n","g","a","l","o","r","e",","," ","I","n","d","i","a">>>>, TRUE, FALSE>>}}

CollectedJobs == {
    << >>,
    <<RawJob(PyNone, <<"I","n","i","t","e","c","h">>, <<"P","u","n","e",","," ","I","n","d","i","a">>, <<"P","y","t","h","o","n">>)>>,
    <<RawJob(<<"S","o","f","t","w","a","r","e"," ","E","n","g","i","n","e","e","r">>, <<"A","c","m","e">>, <<"B","a","n","g","a","l","o","r","e",","," ","I","n","d","i","a">>,
             <<"P","y","t","h","o","n"," ","a","n","d"," ","S","Q","L"," ","b","a","c","k","e","n","d"," ","A","P","I","s">>)>> }

IdleLocals ==
    /\ jobs = << >>
    /\ profile = Profile("general", "mid", << >>, << >>)
    /\ preferences = UserPreferences(<< >>, FALSE, FALSE, FALSE)
    /\ max_results = 0
    /\ filtered_jobs = << >>
    /\ scored_jobs = << >>
    /\ idx = 0
    /\ match = None
    /\ domain_score = None
    /\ result = << >>
    /\ raw_jobs = << >>
    /\ normalized_jobs = << >>
    /\ recommendations = << >>
    /\ response = "none"

InitApi ==
    /\ NoRequests
    /\ NoCollection
    /\ IdleLocals
    /\ pc = "idle"
    /\ call = NoCall
    /\ ret = None

ApiFrame ==
    UNCHANGED <<jobs, profile, preferences, max_results, filtered_jobs, scored_jobs, idx,
                match, domain_score, result, pc, call, ret, pipeline_vars, collect_vars>>

\* POST /api/upload-resume.  session_id = str(uuid.uuid4()) is an id not in
\* use; ids are opaque, and the next unused number stands for it.
UploadResume(file) ==
    /\ pc = "idle"
    /\ Cardinality(DOMAIN sessions) < MaxSessions
    /\ \E session_id \in {Cardinality(DOMAIN sessions) + 1} :
          \E reply \in {upload_resume(file, session_id, now, sessions)} :
             /\ sessions' = reply.sessions
             /\ http' = HTTPResponse("upload_resume", reply.status, reply.detail)
             /\ now' = IF reply.status = 200 THEN now + 1 ELSE now
    /\ UNCHANGED <<runs, run>>
    /\ ApiFrame

\* POST /api/set-preferences
SetPreferences(request) ==
    /\ pc = "idle"
    /\ \E reply \in {set_preferences(request, sessions)} :
          /\ sessions' = reply.sessions
          /\ http' = HTTPResponse("set_preferences", reply.status, reply.detail)
    /\ UNCHANGED <<runs, run, now>>
    /\ ApiFrame

\* GET /api/recommendations up to `await orchestrator.collect_all_jobs(...)`.
GetRecommendations(session_id) ==
    /\ pc = "idle"
    /\ IF session_id \notin DOMAIN sessions
       THEN /\ http' = HTTPResponse("get_recommendations", 404, "Session not found")
            /\ runs' = runs
       ELSE /\ Len(runs) + Len(run) < MaxRuns
            /\ http' = NoResponse
            /\ runs' = Append(runs, Suspended(session_id, sessions[session_id]))
    /\ UNCHANGED <<sessions, run, now>>
    /\ ApiFrame

\* collect_all_jobs returns to one of the suspended requests.
CollectAllJobsReturns(k, collected) ==
    /\ pc = "idle"
    /\ k \in DOMAIN runs
    /\ run' = Some(runs[k])
    /\ runs' = RemoveAt(runs, k)
    /\ \E inputs \in {matching_inputs(runs[k], sessions)} :
          /\ profile' = inputs.profile
          /\ preferences' = inputs.preferences
    /\ raw_jobs' = collected
    /\ http' = NoResponse
    /\ pc' = "collected"
    /\ UNCHANGED <<jobs, max_results, filtered_jobs, scored_jobs, idx, match, domain_score,
                   result, call, ret, normalized_jobs, recommendations, response,
                   sessions, now, collect_vars>>

\* The return (or the HTTPException of the `except Exception` clause) of
\* get_recommendations; its locals are gone.
GetRecommendationsResponds ==
    /\ pc = "done"
    /\ run # None
    /\ http' = HTTPResponse("get_recommendations",
                            IF response = "HTTP 500" THEN 500 ELSE 200, response)
    /\ run' = None
    /\ jobs' = << >>
    /\ profile' = Profile("general", "mid", << >>, << >>)
    /\ preferences' = UserPreferences(<< >>, FALSE, FALSE, FALSE)
    /\ max_results' = 0
    /\ filtered_jobs' = << >>
    /\ scored_jobs' = << >>
    /\ idx' = 0
    /\ match' = None
    /\ domain_score' = None
    /\ result' = << >>
    /\ raw_jobs' = << >>
    /\ normalized_jobs' = << >>
    /\ recommendations' = << >>
    /\ response' = "none"
    /\ pc' = "idle"
    /\ UNCHANGED <<runs, sessions, now, call, ret, collect_vars>>

NextApi ==
    \/ \E file \in UploadFiles : UploadResume(file)
    \/ \E request \in PreferencesRequests : SetPreferences(request)
    \/ \E session_id \in SessionIds : GetRecommendations(session_id)
    \/ \E k \in 1..MaxRuns, collected \in CollectedJobs : CollectAllJobsReturns(k, collected)
    \/ NoJobsFound \/ NormalizeJob \/ DeduplicateNormalized \/ ApplyHardFilters
    \/ ScoreJob \/ ScoreJobRaises \/ ReturnMatches \/ ExplainMatch
    \/ ReturnRecommendations
    \/ GetRecommendationsResponds

SpecApi == InitApi /\ [][NextApi]_vars

(***************************************************************************)
(* Properties.  Scores are compared by cross-multiplication of the         *)
(* numerators and denominators, independently of the Rat operators.        *)
(***************************************************************************)
PositionIn(job_list, job) == CHOOSE i \in DOMAIN job_list : job_list[i] = job
Scaled(x, K) == x[1] * (K \div x[2])
LoweredSet(l) == {Lower(l[i]) : i \in DOMAIN l}
HasAny(words, text) == \E k \in DOMAIN words : Contains(text, words[k])
CityMatch(a, b) == /\ a.city # None /\ a.city[1] # << >>
                   /\ b.city # None /\ b.city[1] # << >>
                   /\ Lower(a.city[1]) = Lower(b.city[1])
CountryMatch(a, b) == /\ a.country # None /\ a.country[1] # << >>
                      /\ b.country # None /\ b.country[1] # << >>
                      /\ Lower(a.country[1]) = Lower(b.country[1])
LocationReturned == call.fn = "score_location_match" /\ ret # None
NonRemoteReturned == LocationReturned /\ call.job_location.location_type # "remote"

C2_LocationScoreBounds ==
    LocationReturned =>
      /\ 0 <= ret[1][1]
      /\ ret[1][1] <= ret[1][2]
      /\ call.job_location.location_type = "remote" => ret[1] = <<1, 1>>

\* A remote job scored 1.0 with remote_only false and preferences given.
C2_Witness ==
    /\ LocationReturned
    /\ call.job_location.location_type = "remote"
    /\ ~call.remote_only
    /\ call.preferred_locations # << >>
    /\ ret[1] = <<1, 1>>

C3_Case ==
    /\ LocationReturned
    /\ call.job_location = normalize_location(<<"D","e","l","h","i",","," ","I","n","d","i","a">>)
    /\ call.preferred_locations = <<<<"B","a","n","g","a","l","o","r","e">>>>
    /\ ~call.remote_only

\* C3 as stated: with preferences ["Bangalore"] and remote_only false, the
\* job normalized from "Delhi, India" scores 0.7.
C3_DelhiScoresSameCountry == C3_Case => ret[1] = <<7, 10>>

\* C3 amended: with preferences ["Bangalore"] and remote_only false, the
\* job normalized from "Delhi, India" gets no same-country credit (the
\* preference normalizes to a null country): 0.0 unless open_to_relocation,
\* then 0.4 if open_to_international and 0.1 if not; it scores 0.7 when
\* the preference names the country, as ["Bangalore, India"] does.
C3_CityOnlyPreferenceNoCountryCredit ==
    /\ C3_Case =>
         ret[1] = IF ~call.open_to_relocation THEN <<0, 1>>
                  ELSE IF call.open_to_international THEN <<2, 5>>
                  ELSE <<1, 10>>
    /\ (/\ LocationReturned
        /\ call.job_location = normalize_location(<<"D","e","l","h","i",","," ","I","n","d","i","a">>)
        /\ call.preferred_locations = <<<<"B","a","n","g","a","l","o","r","e",","," ","I","n","d","i","a">>>>
        /\ ~call.remote_only) => ret[1] = <<7, 10>>

\* The Delhi job scored against ["Bangalore"] without relocation: 0.0.
C3_Witness == C3_Case /\ ~call.open_to_relocation /\ ret[1] = <<0, 1>>

C4_Case ==
    /\ NonRemoteReturned
    /\ ~call.remote_only
    /\ call.preferred_locations # << >>
    /\ \A i \in DOMAIN call.preferred_locations :
          /\ ~CityMatch(call.job_location, normalize_location(call.preferred_locations[i]))
          /\ ~CountryMatch(call.job_location, normalize_location(call.preferred_locations[i]))

\* C4 as stated: with no preference matching by city or country the score
\* is 0.4 if open_to_international and 0.1 if not, for either value of
\* open_to_relocation.
C4_NoMatchIgnoresRelocation ==
    C4_Case => ret[1] = IF call.open_to_international THEN <<2, 5>> ELSE <<1, 10>>

\* C4 amended: with no preference matching by city or country the score is
\* 0.4 if open_to_international and 0.1 if not when open_to_relocation is
\* true, and 0.0 when open_to_relocation is false.
C4_NoMatchScore ==
    C4_Case => ret[1] = IF ~call.open_to_relocation THEN <<0, 1>>
                        ELSE IF call.open_to_international THEN <<2, 5>>
                        ELSE <<1, 10>>

\* An unmatched job scored 0.0 although the user is open to international roles.
C4_Witness ==
    /\ C4_Case
    /\ ~call.open_to_relocation
    /\ call.open_to_international
    /\ ret[1] = <<0, 1>>

\* C5: for a non-remote job, remote_only gives 0.2 whatever else; otherwise
\* no preferred location gives 0.5; otherwise a case-insensitive city match
\* with at least one normalized preference gives 1.0.
C5_PriorityOrder ==
    NonRemoteReturned =>
      /\ call.remote_only => ret[1] = <<1, 5>>
      /\ (~call.remote_only /\ call.preferred_locations = << >>) => ret[1] = <<1, 2>>
      /\ (/\ ~call.remote_only
          /\ \E i \in DOMAIN call.preferred_locations :
                CityMatch(call.job_location, normalize_location(call.preferred_locations[i])))
           => ret[1] = <<1, 1>>

\* 1.0 although a later preference matches the job by country only.
C5_Witness ==
    /\ NonRemoteReturned
    /\ ~call.remote_only
    /\ \E i, j \in DOMAIN call.preferred_locations :
          /\ i < j
          /\ CityMatch(call.job_location, normalize_location(call.preferred_locations[i]))
          /\ ~CityMatch(call.job_location, normalize_location(call.preferred_locations[j]))
          /\ CountryMatch(call.job_location, normalize_location(call.preferred_locations[j]))
    /\ ret[1] = <<1, 1>>

\* C6: skill_score is the Jaccard similarity of the lower-cased skill sets,
\* 0.0 when either list is empty, min(1.0, 1.2 * Jaccard) when the
\* intersection has at least 5 members, and always within [0.0, 1.0].
C6_SkillJaccard ==
    (call.fn = "_calculate_skill_similarity" /\ ret # None) =>
      LET A == LoweredSet(call.user_skills)
          B == LoweredSet(call.job_skills)
          inter == Cardinality(A \cap B)
          union == Cardinality(A \cup B)
          r == ret[1]
      IN /\ 0 <= r[1] /\ r[1] <= r[2]
         /\ (call.user_skills = << >> \/ call.job_skills = << >>) => r = <<0, 1>>
         /\ (call.user_skills # << >> /\ call.job_skills # << >> /\ inter < 5)
              => r[1] * union = inter * r[2]
         /\ (call.user_skills # << >> /\ call.job_skills # << >> /\ inter >= 5)
              => IF 6 * inter >= 5 * union THEN r = <<1, 1>>
                 ELSE r[1] * 5 * union = 6 * inter * r[2]

\* Six user skills containing all five job skills give exactly 1.0.
C6_Witness ==
    /\ call.fn = "_calculate_skill_similarity"
    /\ ret # None
    /\ Cardinality(LoweredSet(call.user_skills)) = 6
    /\ Cardinality(LoweredSet(call.job_skills)) = 5
    /\ LoweredSet(call.job_skills) \subseteq LoweredSet(call.user_skills)
    /\ ret[1] = <<1, 1>>

\* C7: career_score depends only on d = job_level - user_level (levels as in
\* the claim): 0.7 for 0, 0.9 for 1, 0.4 for -1, 0.6 for d >= 2, 0.2 for d <= -2.
C7_CareerTable ==
    (call.fn = "_calculate_career_fit" /\ ret # None) =>
      LET title == Lower(call.job_title)
          user_level == CASE call.user_seniority = "junior" -> 1
                          [] call.user_seniority = "mid" -> 2
                          [] call.user_seniority = "senior" -> 3
                          [] call.user_seniority = "lead" -> 4
                          [] call.user_seniority = "principal" -> 5
          job_level == IF HasAny(<<<<"j","u","n","i","o","r">>, <<"e","n","t","r","y">>, <<"a","s","s","o","c","i","a","t","e">>>>, title) THEN 1
                       ELSE IF HasAny(<<<<"s","e","n","i","o","r">>, <<"s","r">>>>, title) THEN 3
                       ELSE IF HasAny(<<<<"l","e","a","d">>, <<"s","t","a","f","f">>, <<"p","r","i","n","c","i","p","a","l">>>>, title) THEN 4
                       ELSE 2
          d == job_level - user_level
      IN ret[1] = CASE d = 0 -> <<7, 10>>
                    [] d = 1 -> <<9, 10>>
                    [] d = -1 -> <<2, 5>>
                    [] d >= 2 -> <<3, 5>>
                    [] d <= -2 -> <<1, 5>>

\* A principal offered an "Associate Lead" title (level 1): 0.2.
C7_Witness ==
    /\ call.fn = "_calculate_career_fit"
    /\ ret # None
    /\ call.user_seniority = "principal"
    /\ call.job_title = <<"A","s","s","o","c","i","a","t","e"," ","L","e","a","d">>
    /\ ret[1] = <<1, 5>>

\* C8: total_score is 0.3 location + 0.4 skill + 0.2 career + 0.1 domain for
\* the seven business roles and 0.5 location + 0.4 skill + 0.1 career
\* otherwise; for a non-business role, jobs with equal location, skill and
\* career scores get the same total whatever their keyword hits.
C8_WeightedTotal ==
    match # None =>
      LET m == match[1]
          d == domain_score[1]
          K == m.total_score[2] * m.location_score[2] * m.skill_score[2]
                 * m.career_score[2] * d[2]
          business == profile.primary_role \in
                        {"strategy", "consulting", "operations", "marketing",
                         "sales", "finance", "hr"}
      IN /\ business =>
              10 * Scaled(m.total_score, K)
                = 3 * Scaled(m.location_score, K) + 4 * Scaled(m.skill_score, K)
                  + 2 * Scaled(m.career_score, K) + Scaled(d, K)
         /\ ~business =>
              /\ 10 * Scaled(m.total_score, K)
                   = 5 * Scaled(m.location_score, K) + 4 * Scaled(m.skill_score, K)
                     + Scaled(m.career_score, K)
              /\ \A i \in DOMAIN scored_jobs :
                    (/\ scored_jobs[i].location_score = m.location_score
                     /\ scored_jobs[i].skill_score = m.skill_score
                     /\ scored_jobs[i].career_score = m.career_score)
                      => scored_jobs[i].total_score = m.total_score

\* Non-business role: two jobs whose texts hit the business keywords
\* differently have equal sub-scores and equal totals.
C8_Witness ==
    /\ match # None
    /\ profile.primary_role \notin business_roles
    /\ \E i \in DOMAIN scored_jobs :
          /\ scored_jobs[i].job # match[1].job
          /\ scored_jobs[i].location_score = match[1].location_score
          /\ scored_jobs[i].skill_score = match[1].skill_score
          /\ scored_jobs[i].career_score = match[1].career_score
          /\ scored_jobs[i].total_score = match[1].total_score
          /\ \E f \in business_roles :
                _calculate_domain_fit(f, scored_jobs[i].job.title,
                                      scored_jobs[i].job.description)
                  # _calculate_domain_fit(f, match[1].job.title, match[1].job.description)

\* C9: for the seven keyword-table families domain_score is 1.0 with at
\* least two of the family's keywords in the lower-cased title+description,
\* 0.7 with exactly one, 0.3 with none; for any other role it is 0.5.
C9_DomainTable ==
    (call.fn = "_calculate_domain_fit" /\ ret # None) =>
      LET text == Lower(call.job_title \o <<" ">> \o call.job_description)
          family == {k \in DOMAIN role_keywords : role_keywords[k][1] = call.user_role}
      IN IF family = {} THEN ret[1] = <<1, 2>>
         ELSE LET words == role_keywords[CHOOSE k \in family : TRUE][2]
                  hits == Cardinality({k \in DOMAIN words : Contains(text, words[k])})
              IN ret[1] = IF hits >= 2 THEN <<1, 1>>
                          ELSE IF hits = 1 THEN <<7, 10>>
                          ELSE <<3, 10>>

\* A consulting profile and "Management Consultant" / "Providing advisory
\* services": 1.0.
C9_Witness ==
    /\ call.fn = "_calculate_domain_fit"
    /\ ret # None
    /\ call.user_role = "consulting"
    /\ call.job_title = <<"M","a","n","a","g","e","m","e","n","t"," ","C","o","n","s","u","l","t","a","n","t">>
    /\ call.job_description = <<"P","r","o","v","i","d","i","n","g"," ","a","d","v","i","s","o","r","y"," ","s","e","r","v","i","c","e","s">>
    /\ ret[1] = <<1, 1>>

\* C10: with remote_only every non-remote job is dropped before scoring, so
\* every scored or returned JobMatch is for a remote job with location_score
\* 1.0; without remote_only the hard filter drops no job.
C10_RemoteOnlyHardFilter ==
    pc # "filter" =>
      /\ preferences.remote_only =>
           /\ filtered_jobs = SelectSeq(jobs, LAMBDA j : j.location.type = "remote")
           /\ match # None => match[1].job.location.type = "remote"
           /\ \A i \in DOMAIN result :
                 /\ result[i].job.location.type = "remote"
                 /\ result[i].location_score = <<1, 1>>
      /\ ~preferences.remote_only => filtered_jobs = jobs

\* remote_only: of two jobs the non-remote one is dropped, the remote one returned.
C10_Witness ==
    /\ pc = "done"
    /\ preferences.remote_only
    /\ Len(jobs) = 2
    /\ Len(result) = 1
    /\ result[1].job.location.type = "remote"

(***************************************************************************)
(* Properties of the normalizers, the extractor, the explanation generator *)
(* and the pipeline.                                                       *)
(***************************************************************************)
Min(S) == CHOOSE x \in S : \A y \in S : x <= y
Returned(fn) == call.fn = fn /\ ret # None
FirstOccurrences(job_list) ==
    {i \in DOMAIN job_list : \A j \in 1..(i - 1) : job_list[j].id # job_list[i].id}
RankIn(S, i) == Cardinality({j \in S : j <= i})

\* C11: deduplicate_jobs returns exactly the first job of each id, in input
\* order; so the ids of its output are pairwise distinct and deduplicating the
\* output again changes nothing.
C11_DeduplicateFirstWins ==
    Returned("deduplicate_jobs") =>
        LET input == call.jobs
            output == ret[1]
            first == FirstOccurrences(input)
        IN /\ Len(output) = Cardinality(first)
           /\ \A i \in first : output[RankIn(first, i)] = input[i]
           /\ \A i, j \in DOMAIN output : i # j => output[i].id # output[j].id
           /\ deduplicate_jobs(output) = output

C11_Witness ==
    /\ Returned("deduplicate_jobs")
    /\ Len(call.jobs) = 3
    /\ call.jobs[1].id = call.jobs[3].id
    /\ call.jobs[1] # call.jobs[3]
    /\ call.jobs[2].id # call.jobs[1].id
    /\ ret[1] = <<call.jobs[1], call.jobs[2]>>

LowerOptional(opt) == IF opt = None THEN None ELSE Some(Lower(opt[1]))
TripleOf(job) ==
    <<Lower(Format(job.title)), Lower(Format(job.company)),
      <<LowerOptional(job.location.city), LowerOptional(job.location.country),
        job.location.type, Lower(job.location.raw)>>>>
Deduplicated == pc \in {"filter", "score", "explain"}

\* C12: after normalize_job and deduplicate_jobs no two of the remaining jobs
\* have the same (title, company, location) compared case-insensitively.
C12_OneJobPerTriple ==
    Deduplicated =>
        \A i, j \in DOMAIN jobs : i # j => TripleOf(jobs[i]) # TripleOf(jobs[j])

\* The postings among the first k whose normalization does not fail.
Survivors(k) == {i \in 1..k : raw_jobs[i].description # PyNone}
Normalized == IF pc = "collected" THEN idx ELSE Len(raw_jobs)

\* C13: normalize_job returns null for a posting on which a step fails and
\* never raises; the pipeline drops that posting and keeps the normalized
\* others in their original order.
C13_FailedPostingDropped ==
    raw_jobs # << >> =>
        /\ Len(normalized_jobs) = Cardinality(Survivors(Normalized))
        /\ \A i \in Survivors(Normalized) :
              LET job == normalized_jobs[RankIn(Survivors(Normalized), i)]
              IN /\ job.raw_data = raw_jobs[i]
                 /\ job.description # PyNone
        /\ (pc = "collected" => response = "none")

C13_Witness ==
    /\ pc = "collected"
    /\ idx = 2
    /\ raw_jobs[1].description = PyNone
    /\ raw_jobs[2].description # PyNone
    /\ Len(normalized_jobs) = 1
    /\ normalized_jobs[1].raw_data = raw_jobs[2]

\* C14: whatever fields of the raw postings are missing or null, no exception
\* leaves normalize_job, deduplicate_jobs, match_jobs and generate_explanation.
C14_NoExceptionEscapes == response # "HTTP 500"

Commas(s) == {i \in DOMAIN s : s[i] = ","}
FirstPart(s) ==
    Strip(SubSeq(s, 1, IF Commas(s) = {} THEN Len(s) ELSE Min(Commas(s)) - 1))
SecondPart(s) ==
    LET after == Min(Commas(s))
        later == {i \in Commas(s) : i > after}
    IN Strip(SubSeq(s, after + 1, IF later = {} THEN Len(s) ELSE Min(later) - 1))
LastPart(s) == Strip(SubSeq(s, Max(Commas(s)) + 1, Len(s)))
CityOf(part) == DictGet(CITY_ALIASES, Lower(part), part)
CountryOf(part) == DictGet(COUNTRY_MAPPINGS, Lower(part), Title(part))

\* C15: normalize_location answers every string: '' gives the "Not specified"
\* onsite location; a remote keyword gives remote without city and country;
\* otherwise hybrid or onsite by the hybrid keywords, the city is the first
\* comma part (alias-resolved) and the country is null for one part, the second
\* part for two, the last part for three or more (alias-resolved, else
\* title-cased).
C15_NormalizeLocationRules ==
    Returned("normalize_location") =>
        LET s == call.location_str
            r == ret[1]
        IN IF s = << >>
           THEN r = [city |-> None, country |-> None, location_type |-> "onsite",
                     raw |-> <<"N","o","t"," ","s","p","e","c","i","f","i","e","d">>]
           ELSE IF HasAny(REMOTE_KEYWORDS, Lower(s))
           THEN r.location_type = "remote" /\ r.city = None /\ r.country = None
           ELSE /\ r.location_type = IF HasAny(HYBRID_KEYWORDS, Lower(s))
                                     THEN "hybrid" ELSE "onsite"
                /\ r.city = Some(CityOf(FirstPart(s)))
                /\ r.country = IF Cardinality(Commas(s)) = 0 THEN None
                               ELSE IF Cardinality(Commas(s)) = 1
                               THEN Some(CountryOf(SecondPart(s)))
                               ELSE Some(CountryOf(LastPart(s)))

C15_Witness ==
    /\ Returned("normalize_location")
    /\ Cardinality(Commas(call.location_str)) = 2
    /\ ret[1].location_type = "onsite"
    /\ ret[1].city = Some(<<"D","e","l","h","i">>)
    /\ ret[1].country = Some(<<"U","n","i","t","e","d"," ","K","i","n","g","d","o","m">>)

SkillOverlap ==
    LoweredSet(call.profile.skills \o call.profile.tools)
        \cap LoweredSet(call.match.job.required_skills)

\* C17: generate_explanation returns null exactly when no skill of the profile
\* (skills and tools) equals a required skill of the job case-insensitively,
\* whatever the scores; a returned record has a non-empty why_match.
C17_NullIffNoSkillOverlap ==
    Returned("generate_explanation") =>
        /\ ret[1] = None <=> SkillOverlap = {}
        /\ ret[1] # None => ret[1][1].why_match # << >>

C17_Witness ==
    /\ Returned("generate_explanation")
    /\ call.match.total_score = One
    /\ call.match.location_score = One
    /\ call.match.skill_score = Rat(3, 5)
    /\ call.match.career_score = Rat(9, 10)
    /\ call.match.job.required_skills # << >>
    /\ ret[1] = None

HitLevels(text) ==
    {l \in DOMAIN seniority_keywords : HasAny(seniority_keywords[l][2], Lower(text))}

\* C18: when the text holds a seniority keyword, extract_seniority returns the
\* level of the first keyword list with a hit, whatever experience_years is;
\* with no keyword it returns junior below 2 years, mid below 5, senior below
\* 8 and lead from 8 on.
C18_KeywordBeforeYears ==
    Returned("extract_seniority") =>
        LET hits == HitLevels(call.text)
            years == call.experience_years
        IN IF hits # {} THEN ret[1] = seniority_keywords[Min(hits)][1]
           ELSE /\ years < 2 => ret[1] = "junior"
                /\ (2 <= years /\ years < 5) => ret[1] = "mid"
                /\ (5 <= years /\ years < 8) => ret[1] = "senior"
                /\ 8 <= years => ret[1] = "lead"

C18_Witness ==
    /\ Returned("extract_seniority")
    /\ call.text = <<"J","u","n","i","o","r"," ","D","e","v","e","l","o","p","e","r">>
    /\ call.experience_years = 9
    /\ ret[1] = "junior"

\* The years 19xx and 20xx written in the text.
YearsMentioned(text) ==
    {ParseInt(SubSeq(text, i, i + 3)) :
        i \in {k \in 1..(Len(text) - 3) :
                  /\ \A m \in k..(k + 3) : IsDigit(text[m])
                  /\ SubSeq(text, k, k + 1) \in {<<"1","9">>, <<"2","0">>}
                  /\ WordBoundary(text, k - 1)
                  /\ WordBoundary(text, k + 3)}}

\* C19: for a text without an "<N> years of experience" phrase whose date
\* ranges span at least two years, extract_experience_years returns at least 2.
C19_YearsFromDateRanges ==
    ( /\ Returned("extract_experience_years")
      /\ strict_matches(Lower(call.text)) = {}
      /\ YearsMentioned(call.text) # {}
      /\ Max(YearsMentioned(call.text)) - Min(YearsMentioned(call.text)) >= 2 )
    => ret[1] >= 2

\* C20: extract_role_family labels the text of a strategy role, "Strategy
\* Consultant at McKinsey", as 'strategy', a label of the matcher's
\* business-role set.
C20_StrategyRoleLabelled ==
    ( /\ Returned("extract_role_family")
      /\ call.text = <<"S","t","r","a","t","e","g","y"," ","C","o","n","s","u","l","t","a","n","t"," ","a","t"," ","M","c","K","i","n","s","e","y">> )
    => ret[1] = "strategy" /\ ret[1] \in business_roles

HasIndicator(text) ==
    \E i \in DOMAIN resume_indicators : Contains(Lower(text), resume_indicators[i])

\* C21: validate_resume_content returns False for a text that contains none
\* of the resume indicator keywords, however long it is; it returns True only
\* for a text of at least 10 characters after stripping that contains at
\* least one indicator.
C21_IndicatorRequired ==
    Returned("validate_resume_content") =>
        /\ ~HasIndicator(call.text) => ret[1] = FALSE
        /\ ret[1] = TRUE => /\ Len(StripWhitespace(call.text)) >= 10
                            /\ HasIndicator(call.text)

\* C24: a recommendation request that ends with no job to recommend, because
\* nothing survives the hard filter, the threshold or explanation generation,
\* answers the 'no matches' condition and never a success response with an
\* empty recommendations list.
C24_NoEmptySuccess ==
    (pc = "done" /\ recommendations = << >> /\ response # "HTTP 500" /\ jobs # << >>)
        => response = "No jobs found matching your profile"

RemoteJobs(job_list) == {i \in DOMAIN job_list : job_list[i].location.type = "remote"}
MatchedJobs(matches) == {matches[i].job : i \in DOMAIN matches}

\* C29: a remote job is never removed by the score threshold: once scored
\* its match has total_score >= 0.3 under either weight set and is kept, so
\* when match_jobs returns, a remote job is missing from the result only if
\* the result was truncated to max_results.
C29_RemoteNeverBelowThreshold ==
    /\ pc = "score" =>
          \A i \in RemoteJobs(filtered_jobs) : i <= idx =>
              \E k \in DOMAIN scored_jobs :
                  /\ scored_jobs[k].job = filtered_jobs[i]
                  /\ 3 * scored_jobs[k].total_score[2] <= 10 * scored_jobs[k].total_score[1]
    /\ pc = "done" =>
          \A i \in RemoteJobs(jobs) :
              jobs[i] \notin MatchedJobs(result) =>
                  /\ Len(result) = max_results
                  /\ Len(scored_jobs) > max_results

\* A remote job without any skill in common is returned for a business role
\* with a total below 0.5.
C29_Witness ==
    /\ pc = "done"
    /\ profile.primary_role \in business_roles
    /\ \E i \in DOMAIN result :
          /\ result[i].job.location.type = "remote"
          /\ result[i].skill_score = <<0, 1>>
          /\ 2 * result[i].total_score[1] < result[i].total_score[2]

\* C30: for a non-remote job with remote_only false and a non-empty list of
\* preferred locations score_location_match returns one of 1.0, 0.7, 0.4,
\* 0.1 and 0.0 and never 0.5; for a non-remote job 0.5 is returned only when
\* no preferred location is given.
C30_NoHalfWithPreferences ==
    NonRemoteReturned =>
      /\ (~call.remote_only /\ call.preferred_locations # << >>) =>
            /\ ret[1] \in {<<1, 1>>, <<7, 10>>, <<2, 5>>, <<1, 10>>, <<0, 1>>}
            /\ 2 * ret[1][1] # ret[1][2]
      /\ 2 * ret[1][1] = ret[1][2] =>
            (~call.remote_only /\ call.preferred_locations = << >>)

\* Open to relocation with a preference in the job's country and none in its
\* city: the loop has already given 0.7.
C30_Witness ==
    /\ NonRemoteReturned
    /\ ~call.remote_only
    /\ call.open_to_relocation
    /\ call.preferred_locations # << >>
    /\ \E i \in DOMAIN call.preferred_locations :
          CountryMatch(call.job_location, normalize_location(call.preferred_locations[i]))
    /\ \A i \in DOMAIN call.preferred_locations :
          ~CityMatch(call.job_location, normalize_location(call.preferred_locations[i]))
    /\ ret[1] = <<7, 10>>

\* C25: every ExternalSearchRecommendation that generate_external_searches
\* returns has a relevance_score within the documented range 0 to 10.
C25_RelevanceWithinRange ==
    Returned("generate_external_searches") =>
        /\ \A i \in DOMAIN ret[1].naukri_searches :
              ret[1].naukri_searches[i].relevance_score \in 0..10
        /\ \A i \in DOMAIN ret[1].instahyre_searches :
              ret[1].instahyre_searches[i].relevance_score \in 0..10

JobsOf(i) == IF tasks[i].status = "returned" THEN tasks[i].result ELSE << >>

\* C26: collect_all_jobs starts the Greenhouse, Lever and RemoteOK
\* collectors together and returns only after all three have ended; its
\* result is the concatenation, in that source order whatever the order of
\* completion, of the job lists of the collectors that returned, and a
\* collector that raised contributes nothing.
C26_GatherInSourceOrder ==
    /\ tasks # << >> => Len(tasks) = 3
    /\ finished # << >> => Len(tasks) = 3
    /\ all_jobs # None =>
          /\ \A i \in DOMAIN tasks : tasks[i].status \in {"returned", "raised"}
          /\ Len(finished) = 3
          /\ all_jobs[1] = JobsOf(1) \o JobsOf(2) \o JobsOf(3)
          /\ saved_raw_jobs = all_jobs

\* RemoteOK ended first and Lever raised: the result is the Greenhouse jobs
\* followed by the RemoteOK jobs.
C26_Witness ==
    /\ all_jobs # None
    /\ finished = <<3, 1, 2>>
    /\ tasks[2].status = "raised"
    /\ JobsOf(1) # << >>
    /\ JobsOf(3) # << >>
    /\ all_jobs[1] = JobsOf(1) \o JobsOf(3)

AcceptedFileType(file) == EndsWith(file.filename, <<".","p","d","f">>) \/ EndsWith(file.filename, <<".","d","o","c","x">>)

\* C27: upload_resume answers HTTP 422 when validate_resume_content rejects
\* the parsed text, as it does when parse_resume raises ResumeParsingError,
\* and answers HTTP 500 only when the profile extraction fails on accepted
\* text.
C27_RejectedContentIs422 ==
    [][\A file \in UploadFiles :
          (AcceptedFileType(file) /\ UploadResume(file)) =>
             /\ file.parsed = None => http'.status = 422
             /\ (file.parsed # None /\ ~validate_resume_content(file.parsed[1]))
                   => http'.status = 422
             /\ http'.status = 500 =>
                   /\ file.parsed # None
                   /\ validate_resume_content(file.parsed[1])
                   /\ file.extracted = None]_vars

FailingUploads ==
    {file \in UploadFiles : \/ ~AcceptedFileType(file)
                            \/ file.parsed = None
                            \/ ~validate_resume_content(file.parsed[1])
                            \/ file.extracted = None}

\* C28: a request that fails leaves the session store as it was:
\* set_preferences and get_recommendations for an unknown session_id answer
\* 404 and create or alter no session, an upload_resume that fails at the
\* file-type check, at parsing, at content validation or at profile
\* extraction creates no session, and no step that answers with an error
\* status changes the store.
C28_FailedRequestsLeaveStore ==
    [][/\ http'.status \notin {0, 200} => sessions' = sessions
       /\ \A request \in PreferencesRequests :
             (request.session_id \notin DOMAIN sessions /\ SetPreferences(request)) =>
                http'.status = 404 /\ sessions' = sessions
       /\ \A session_id \in SessionIds :
             (session_id \notin DOMAIN sessions /\ GetRecommendations(session_id)) =>
                http'.status = 404 /\ sessions' = sessions /\ runs' = runs
       /\ \A file \in FailingUploads :
             UploadResume(file) =>
                http'.status \in {400, 422, 500} /\ sessions' = sessions]_vars

C28_Witness ==
    /\ http.handler = "set_preferences"
    /\ http.status = 404
    /\ DOMAIN sessions = {1}
    /\ sessions[1].preferences # None

\* C22: set_preferences on an existing session replaces that session's
\* preferences wholesale with the submitted values and leaves its profile,
\* its created_at and every other session unchanged; no step of any upload,
\* set_preferences or get_recommendations request changes the profile (or
\* created_at) of a session that exists, or removes a session.
C22_PreferencesReplacedWholesale ==
    [][/\ \A request \in PreferencesRequests :
             (request.session_id \in DOMAIN sessions /\ SetPreferences(request)) =>
                /\ DOMAIN sessions' = DOMAIN sessions
                /\ sessions'[request.session_id].preferences # None
                /\ LET stored == sessions'[request.session_id].preferences[1]
                   IN /\ stored.career_goals = request.career_goals
                      /\ stored.preferred_locations = request.preferred_locations
                      /\ stored.open_to_relocation = request.open_to_relocation
                      /\ stored.open_to_international = request.open_to_international
                      /\ stored.remote_only = request.remote_only
                      /\ DOMAIN stored = {"career_goals", "preferred_locations",
                                          "open_to_relocation", "open_to_international",
                                          "remote_only"}
                /\ \A other \in DOMAIN sessions \ {request.session_id} :
                      sessions'[other] = sessions[other]
       /\ \A session_id \in DOMAIN sessions :
             /\ session_id \in DOMAIN sessions'
             /\ sessions'[session_id].profile = sessions[session_id].profile
             /\ sessions'[session_id].created_at = sessions[session_id].created_at]_vars

\* set_preferences has just succeeded, two sessions with different profiles
\* exist and each holds preferences of its own.
C22_Witness ==
    /\ DOMAIN sessions = {1, 2}
    /\ http.handler = "set_preferences"
    /\ http.status = 200
    /\ sessions[1].preferences # None
    /\ sessions[1].preferences[1].career_goals = None
    /\ sessions[2].preferences # None
    /\ sessions[2].preferences[1].career_goals # None
    /\ sessions[1].profile # sessions[2].profile

\* The preferences a request for this session would use if it began now.
EffectivePreferences(session) ==
    IF session.preferences = None
    THEN [career_goals |-> None, preferred_locations |-> << >>,
          open_to_relocation |-> FALSE, open_to_international |-> FALSE,
          remote_only |-> FALSE]
    ELSE session.preferences[1]

\* C23: a get_recommendations run matches with the profile and preferences
\* its session held when the request began: the request suspends holding
\* them, no step taken while it is suspended (a set_preferences for the same
\* session included) changes what it holds, and the run resumed after job
\* collection normalizes, matches and explains with exactly these.
C23_RunUsesSnapshot ==
    [][/\ Len(runs') > Len(runs) =>
             LET began == runs'[Len(runs')]
             IN /\ began.session_id \in DOMAIN sessions
                /\ began.profile = sessions[began.session_id].profile
                /\ began.preferences = EffectivePreferences(sessions[began.session_id])
                /\ SubSeq(runs', 1, Len(runs)) = runs
       /\ Len(runs') = Len(runs) => runs' = runs
       /\ Len(runs') < Len(runs) =>
             /\ run = None /\ run' # None
             /\ \E k \in DOMAIN runs :
                   /\ runs[k] = run'[1]
                   /\ runs' = SubSeq(runs, 1, k - 1) \o SubSeq(runs, k + 1, Len(runs))
       /\ (run' # None /\ Len(runs') = Len(runs)) => run' = run
       /\ run' # None =>
             /\ profile' = run'[1].profile
             /\ preferences' = run'[1].preferences]_vars

\* A run is scoring jobs with preferences that are no longer the ones its
\* session stores: set_preferences changed them while the run was suspended.
C23_Witness ==
    /\ run # None
    /\ pc = "score"
    /\ run[1].session_id \in DOMAIN sessions
    /\ sessions[run[1].session_id].preferences # None
    /\ sessions[run[1].session_id].preferences[1] # preferences
    /\ preferences.career_goals # None

====
